---- MODULE Spec2Model ----
(***************************************************************************)
(* Fornalder: time bins (YearMonth), the cohort histogram (CohortHist) and *)
(* the aggregation queries of CommitDb, as state machines.                 *)
(*                                                                         *)
(* An Option<i32> is a sequence: << >> is None, <<m>> is Some(m).          *)
(* A string that the code inspects character by character (a cohort name)  *)
(* is a sequence of one-character strings.                                 *)
(***************************************************************************)
EXTENDS Integers, Sequences, FiniteSets, TLC

VARIABLES
    ym,          \* SpecBins: the bin a caller holds
    ym_from,     \* SpecBins: the bin it was computed from
    ym_op,       \* SpecBins: "init", "next" or "prev"
    hist,        \* the CohortHist under construction / last returned by get_hist
    n_sets,      \* SpecHist: number of set_value / set_cohort_name calls so far
    calls,       \* number of set_value calls made so far on each (bin, cohort) key of hist
    names_set,   \* SpecHist: the name last passed to set_cohort_name for each cohort
    raw_commits, \* table raw_commits: a set of rows
    suffixes,    \* table suffixes: a set of rows
    authors,     \* table authors, as postprocess last created it
    top,         \* table {column}_top, as get_hist last created it: the column
                 \* values in rowid order (rowid = position)
    result,      \* "none", or how the plot command's get_hist ended: "ok" / "err"
    req,         \* the arguments of the plot command that produced result
    log,         \* the commits the ingested repositories' logs hold
    n_inserts,   \* number of insert_raw_commit calls so far
    line_splitter, \* GitCommitReader: the lines of git's output not yet taken
    consumed,    \* SpecReader: the lines next() has taken so far, in order
    yielded,     \* SpecReader: the commits next() has returned so far, in order
    ended        \* SpecReader: next() has returned None

binVars == <<ym, ym_from, ym_op>>
histVars == <<hist, n_sets, calls, names_set>>
dbVars == <<raw_commits, suffixes, authors, top>>
runVars == <<result, req, log, n_inserts>>
readerVars == <<line_splitter, consumed, yielded, ended>>
vars == <<ym, ym_from, ym_op, hist, n_sets, calls, names_set, raw_commits, suffixes, authors, top,
          result, req, log, n_inserts, line_splitter, consumed, yielded, ended>>

-----------------------------------------------------------------------------
(* Bounds of the model *)

\* SpecBins: years a caller may start from and stay within
MinYear == 2018
MaxYear == 2022
\* SpecHist: number of calls on one histogram
MaxSets == 3
MaxLog == 2

\* The store variables of a run that opens no database
NoDatabase ==
    /\ raw_commits = {}
    /\ suffixes = {}
    /\ authors = {}
    /\ top = << >>
    /\ result = "none"
    /\ req = << >>
    /\ log = << >>
    /\ n_inserts = 0

\* The reader variables of a run that reads no git output
NoReader ==
    /\ line_splitter = << >>
    /\ consumed = << >>
    /\ yielded = << >>
    /\ ended = FALSE


-----------------------------------------------------------------------------
(* YearMonth *)

None == << >>
Some(x) == <<x>>
IsSome(o) == Len(o) = 1
Unwrap(o) == o[1]

YearMonth(year, month) == [year |-> year, month |-> month]

\* #[derive(PartialOrd, Ord)] on Option<i32>: None < Some(_), Some by value
OptLt(a, b) ==
    IF ~IsSome(a) THEN IsSome(b)
    ELSE IsSome(b) /\ Unwrap(a) < Unwrap(b)

\* #[derive(PartialOrd, Ord)] on the struct: year first, then month
YmLt(a, b) ==
    \/ a.year < b.year
    \/ a.year = b.year /\ OptLt(a.month, b.month)

YmLe(a, b) == a = b \/ YmLt(a, b)

next_Stuck11(b) ==
    IF ~IsSome(b.month) THEN YearMonth(b.year + 1, None)
    ELSE IF Unwrap(b.month) = 11 THEN YearMonth(b.year, Some(0))
    ELSE YearMonth(b.year, Some(Unwrap(b.month) + 1))

next_NoneToJanuary(b) ==
    IF ~IsSome(b.month) THEN YearMonth(b.year + 1, Some(0))
    ELSE IF Unwrap(b.month) = 11 THEN YearMonth(b.year + 1, Some(0))
    ELSE YearMonth(b.year, Some(Unwrap(b.month) + 1))

next(b) ==
    IF ~IsSome(b.month) THEN YearMonth(b.year + 1, None)
    ELSE IF Unwrap(b.month) = 11 THEN YearMonth(b.year + 1, Some(0))
    ELSE YearMonth(b.year, Some(Unwrap(b.month) + 1))

prev_KeepsYear(b) ==
    IF ~IsSome(b.month) THEN YearMonth(b.year - 1, None)
    ELSE IF Unwrap(b.month) = 0 THEN YearMonth(b.year, Some(11))
    ELSE YearMonth(b.year, Some(Unwrap(b.month) - 1))

prev(b) ==
    IF ~IsSome(b.month) THEN YearMonth(b.year - 1, None)
    ELSE IF Unwrap(b.month) = 0 THEN YearMonth(b.year - 1, Some(11))
    ELSE YearMonth(b.year, Some(Unwrap(b.month) - 1))

\* The bins the program builds: no month, or a month0 in 0..11
Months == {None} \cup {Some(m) : m \in 0..11}
BinsOf(years) == {YearMonth(y, m) : y \in years, m \in Months}

-----------------------------------------------------------------------------
(* CohortHist *)

NO_COHORT == -1
I32Max == 2147483647
I32Min == -I32Max - 1

EmptyMap == [k \in {} |-> 0]
Put(map, k, v) == (k :> v) @@ map
Has(map, k) == k \in DOMAIN map

\* CohortHist::new
new ==
    [bins |-> EmptyMap,
     first_cohort |-> I32Max,
     last_cohort |-> I32Min,
     cohort_names |-> EmptyMap]

set_value_BoundsIncludeSentinel(h, b, cohort, value) ==
    [h EXCEPT
        !.first_cohort = IF cohort < @ THEN cohort ELSE @,
        !.last_cohort = IF cohort > @ THEN cohort ELSE @,
        !.bins = Put(@, b, Put(IF Has(@, b) THEN @[b] ELSE EmptyMap, cohort, value))]

\* CohortHist::set_value
set_value(h, b, cohort, value) ==
    [h EXCEPT
        !.first_cohort = IF cohort /= NO_COHORT /\ cohort < @ THEN cohort ELSE @,
        !.last_cohort = IF cohort /= NO_COHORT /\ cohort > @ THEN cohort ELSE @,
        !.bins = Put(@, b, Put(IF Has(@, b) THEN @[b] ELSE EmptyMap, cohort, value))]

\* CohortHist::get_value, an Option<i32>
get_value(h, b, cohort) ==
    IF ~Has(h.bins, b) THEN None
    ELSE IF Has(h.bins[b], cohort) THEN Some(h.bins[b][cohort])
    ELSE None

unwrap_or(o, d) == IF IsSome(o) THEN Unwrap(o) ELSE d

\* str::trim on a sequence of characters
IsWhite(ch) == ch \in {" ", "\t"}

RECURSIVE TrimStart(_)
TrimStart(s) ==
    IF s /= << >> /\ IsWhite(Head(s)) THEN TrimStart(Tail(s)) ELSE s

RECURSIVE TrimEnd(_)
TrimEnd(s) ==
    IF s /= << >> /\ IsWhite(s[Len(s)]) THEN TrimEnd(SubSeq(s, 1, Len(s) - 1)) ELSE s

trim(s) == TrimEnd(TrimStart(s))

Blank == <<"(", "b", "l", "a", "n", "k", ")">>

set_cohort_name_KeepsBlank(h, cohort, name) ==
    [h EXCEPT !.cohort_names = Put(@, cohort, trim(name))]

\* CohortHist::set_cohort_name
set_cohort_name(h, cohort, name) ==
    LET name_string == IF trim(name) = << >> THEN Blank ELSE trim(name)
    IN  [h EXCEPT !.cohort_names = Put(@, cohort, name_string)]

\* CohortHist::get_cohort_name
get_cohort_name(h, cohort) ==
    IF Has(h.cohort_names, cohort) THEN h.cohort_names[cohort] ELSE << >>

\* Iterator::minmax over the keys of bins, under the derived Ord
MinBin(h) == CHOOSE m \in DOMAIN h.bins : \A k \in DOMAIN h.bins : YmLe(m, k)
MaxBin(h) == CHOOSE m \in DOMAIN h.bins : \A k \in DOMAIN h.bins : YmLe(k, m)

\* CohortHist::get_bounds, an Option of (first bin, last bin, first cohort, last cohort)
get_bounds(h) ==
    IF DOMAIN h.bins = {} THEN None
    ELSE Some(<<MinBin(h), MaxBin(h), h.first_cohort, h.last_cohort>>)

\* the sum of self.bins[&ym].iter().map(|(_, x)| x)
RECURSIVE SumValues(_)
SumValues(m) ==
    IF DOMAIN m = {} THEN 0
    ELSE LET k == CHOOSE k \in DOMAIN m : TRUE
         IN  m[k] + SumValues([j \in DOMAIN m \ {k} |-> m[j]])

BinSum_NonSentinelOnly(h, b) ==
    IF Has(h.bins, b)
    THEN SumValues([j \in DOMAIN h.bins[b] \ {NO_COHORT} |-> h.bins[b][j]])
    ELSE 0

\* to_vecs: the leading sum of a row
BinSum(h, b) == IF Has(h.bins, b) THEN SumValues(h.bins[b]) ELSE 0

\* to_vecs: the inner loop, g from first_cohort while g <= last_cohort
RECURSIVE CohortColumns(_, _, _, _)
CohortColumns(h, b, g, last_cohort) ==
    IF g <= last_cohort
    THEN <<<<g, unwrap_or(get_value(h, b, g), 0)>>>>
         \o CohortColumns(h, b, g + 1, last_cohort)
    ELSE << >>

TrailingColumn_Always(h, b) ==
    <<<<NO_COHORT, unwrap_or(get_value(h, b, NO_COHORT), 0)>>>>

\* to_vecs: the trailing sentinel column
TrailingColumn(h, b) ==
    IF get_cohort_name(h, NO_COHORT) /= << >>
    THEN <<<<NO_COHORT, unwrap_or(get_value(h, b, NO_COHORT), 0)>>>>
    ELSE << >>

\* to_vecs: one row (ym, gens_vec)
RowOf(h, b, first_cohort, last_cohort) ==
    <<b, <<<<NO_COHORT, BinSum(h, b)>>>>
         \o CohortColumns(h, b, first_cohort, last_cohort)
         \o TrailingColumn(h, b)>>

RECURSIVE RowsFrom_SkipsUnwritten(_, _, _, _, _)
RowsFrom_SkipsUnwritten(h, b, last_ym, first_cohort, last_cohort) ==
    IF YmLe(b, last_ym)
    THEN (IF Has(h.bins, b) THEN <<RowOf(h, b, first_cohort, last_cohort)>> ELSE << >>)
         \o RowsFrom_SkipsUnwritten(h, next(b), last_ym, first_cohort, last_cohort)
    ELSE << >>

\* to_vecs: the outer loop, while ym <= last_ym
RECURSIVE RowsFrom(_, _, _, _, _)
RowsFrom(h, b, last_ym, first_cohort, last_cohort) ==
    IF YmLe(b, last_ym)
    THEN <<RowOf(h, b, first_cohort, last_cohort)>>
         \o RowsFrom(h, next(b), last_ym, first_cohort, last_cohort)
    ELSE << >>

FirstRowBin_NoPadding(first_ym) == first_ym

\* to_vecs: the first row's bin, padded to the first month of its year
FirstRowBin(first_ym) ==
    IF IsSome(first_ym.month) THEN [first_ym EXCEPT !.month = Some(0)] ELSE first_ym

\* CohortHist::to_vecs
to_vecs(h) ==
    IF ~IsSome(get_bounds(h)) THEN << >>
    ELSE LET bounds == Unwrap(get_bounds(h))
         IN  RowsFrom(h, FirstRowBin(bounds[1]), bounds[2], bounds[3], bounds[4])

-----------------------------------------------------------------------------
(* SpecHist: a caller filling one histogram through its public methods *)

HistBins ==
    {YearMonth(2019, None), YearMonth(2021, None),
     YearMonth(2020, Some(10)), YearMonth(2021, Some(1))}
HistCohorts == {NO_COHORT, 0, 2}
HistValues == {0, 3}
NameInputs == {<< >>, <<" ">>, <<" ", "b", " ">>}

InitHist ==
    /\ hist = new
    /\ n_sets = 0
    /\ calls = EmptyMap
    /\ names_set = EmptyMap
    /\ ym = YearMonth(MinYear, None)
    /\ ym_from = ym
    /\ ym_op = "init"
    /\ NoDatabase
    /\ NoReader

SetValue ==
    /\ n_sets < MaxSets
    /\ \E b \in HistBins, cohort \in HistCohorts, value \in HistValues :
           /\ hist' = set_value(hist, b, cohort, value)
           /\ calls' = Put(calls, <<b, cohort>>,
                           IF Has(calls, <<b, cohort>>) THEN calls[<<b, cohort>>] + 1 ELSE 1)
    /\ n_sets' = n_sets + 1
    /\ UNCHANGED <<names_set, binVars, dbVars, runVars, readerVars>>

SetCohortName ==
    /\ n_sets < MaxSets
    /\ \E cohort \in HistCohorts, name \in NameInputs :
           /\ hist' = set_cohort_name(hist, cohort, name)
           /\ names_set' = Put(names_set, cohort, name)
    /\ n_sets' = n_sets + 1
    /\ UNCHANGED <<calls, binVars, dbVars, runVars, readerVars>>

NextHist == SetValue \/ SetCohortName

SpecHist == InitHist /\ [][NextHist]_vars


-----------------------------------------------------------------------------
(* Strings and dates, as the ingest path computes them *)

\* char::to_lowercase on the characters the inputs use
to_lowercase(s) ==
    [i \in 1..Len(s) |-> IF s[i] = "X" THEN "x" ELSE IF s[i] = "Y" THEN "y" ELSE s[i]]

\* str::rfind: the last position of ch in s, 0 if absent
rfind(s, ch) ==
    IF \E i \in 1..Len(s) : s[i] = ch
    THEN CHOOSE i \in 1..Len(s) : s[i] = ch /\ \A j \in (i + 1)..Len(s) : s[j] /= ch
    ELSE 0

\* str::split(ch): the pieces of s between occurrences of ch
RECURSIVE split(_, _)
split(s, ch) ==
    IF \E i \in 1..Len(s) : s[i] = ch
    THEN LET i == CHOOSE i \in 1..Len(s) : s[i] = ch /\ \A j \in 1..(i - 1) : s[j] /= ch
         IN  <<SubSeq(s, 1, i - 1)>> \o split(SubSeq(s, i + 1, Len(s)), ch)
    ELSE <<s>>

\* [&str]::join(sep)
RECURSIVE join(_, _)
join(parts, sep) ==
    IF Len(parts) = 0 THEN << >>
    ELSE IF Len(parts) = 1 THEN parts[1]
    ELSE parts[1] \o sep \o join(Tail(parts), sep)

\* email_to_domain
email_to_domain(email_in) ==
    LET lower == to_lowercase(email_in)
        p == rfind(lower, "@")
        email == IF p > 0 THEN SubSeq(lower, p + 1, Len(lower)) ELSE lower
        parts == split(email, ".")
        n == Len(parts)
    IN  IF n > 2
        THEN IF Len(parts[n]) < 3
             THEN IF Len(parts[n - 1]) < 4
                  THEN join(SubSeq(parts, n - 2, n), <<".">>)
                  ELSE join(SubSeq(parts, n - 1, n), <<".">>)
             ELSE join(SubSeq(parts, n - 1, n), <<".">>)
        ELSE email

\* i32::to_string for a non-negative number, and with its sign
RECURSIVE NatToString(_)
NatToString(n) ==
    LET digit == <<"0", "1", "2", "3", "4", "5", "6", "7", "8", "9">>[(n % 10) + 1]
    IN  IF n < 10 THEN <<digit>> ELSE NatToString(n \div 10) \o <<digit>>

to_string(n) == IF n < 0 THEN <<"-">> \o NatToString(-n) ELSE NatToString(n)

ColumnHeading_Raw(h, g) == get_cohort_name(h, g)

\* to_csv: the heading of cohort g, "(blank)" for a cohort without a name
ColumnHeading(h, g) ==
    IF get_cohort_name(h, g) = << >> THEN Blank ELSE get_cohort_name(h, g)

\* to_csv: the headings "|name" for g up to gl
RECURSIVE ColumnHeadings(_, _, _)
ColumnHeadings(h, g, gl) ==
    IF g <= gl
    THEN <<"|">> \o ColumnHeading(h, g) \o ColumnHeadings(h, g + 1, gl)
    ELSE << >>

SentinelHeading_Always(h) == <<"|">> \o get_cohort_name(h, NO_COHORT)

\* to_csv: the heading of the trailing sentinel column
SentinelHeading(h) ==
    IF get_cohort_name(h, NO_COHORT) /= << >>
    THEN <<"|">> \o get_cohort_name(h, NO_COHORT)
    ELSE << >>

\* to_csv: the first row, the keys, closed by a newline
keys(h) ==
    IF ~IsSome(get_bounds(h)) THEN << >>
    ELSE LET bounds == Unwrap(get_bounds(h))
             vecs == to_vecs(h)
         IN  (IF IsSome(vecs[1][1].month)
              THEN <<"Y", "e", "a", "r", "|", "M", "o", "n", "t", "h", "|", "S", "u", "m">>
              ELSE <<"Y", "e", "a", "r", "|", "S", "u", "m">>)
             \o ColumnHeadings(h, bounds[3], bounds[4])
             \o SentinelHeading(h)
             \o <<"\n">>

\* to_csv: one data line, the prefix and the values joined by "|"
DataLine(row) ==
    LET b == row[1]
        gens == row[2]
        prefix == IF IsSome(b.month)
                  THEN to_string(b.year) \o <<"|">> \o to_string(Unwrap(b.month)) \o <<"|">>
                  ELSE to_string(b.year) \o <<"|">>
    IN  prefix \o join([i \in 1..Len(gens) |-> to_string(gens[i][2])], <<"|">>)

\* CohortHist::to_csv
to_csv(h) ==
    LET vecs == to_vecs(h)
    IN  keys(h) \o join([i \in 1..Len(vecs) |-> DataLine(vecs[i])], <<"\n">>)

SecondsPerDay == 60 * 60 * 24

\* The day number (days since 1970-01-01) of a proleptic Gregorian date
DaysFromCivil(y, m, d) ==
    LET yy == IF m <= 2 THEN y - 1 ELSE y
        era == yy \div 400
        yoe == yy - era * 400
        mp == IF m > 2 THEN m - 3 ELSE m + 9
        doy == (153 * mp + 2) \div 5 + d - 1
        doe == yoe * 365 + yoe \div 4 - yoe \div 100 + doy
    IN  era * 146097 + doe - 719468

\* The instant of midnight UTC at a date, in seconds since the epoch
Timestamp(y, m, d) == DaysFromCivil(y, m, d) * SecondsPerDay

\* The (year, month0) of a day number: Datelike::year and Datelike::month0
CivilFromDays(days) ==
    LET z == days + 719468
        era == z \div 146097
        doe == z - era * 146097
        yoe == (doe - doe \div 1460 + doe \div 36524 - doe \div 146096) \div 365
        doy == doe - (365 * yoe + yoe \div 4 - yoe \div 100)
        mp == (5 * doy + 2) \div 153
        m == IF mp < 10 THEN mp + 3 ELSE mp - 9
        y == yoe + era * 400 + (IF m <= 2 THEN 1 ELSE 0)
    IN  [year |-> y, month0 |-> m - 1]

\* A DateTime<FixedOffset> is [ts, off]: the instant and the offset in seconds
DateTime(ts, off) == [ts |-> ts, off |-> off]
timestamp(dt) == dt.ts
year(dt) == CivilFromDays((dt.ts + dt.off) \div SecondsPerDay).year
month0(dt) == CivilFromDays((dt.ts + dt.off) \div SecondsPerDay).month0


-----------------------------------------------------------------------------
(* CommitDb: the tables, ingest and postprocess *)

\* YearMonth::begin_dt and YearMonth::end_dt, as timestamps
begin_dt(b) == Timestamp(b.year, unwrap_or(b.month, 0) + 1, 1)

end_dt_DecemberInSameYear(b) ==
    IF ~IsSome(b.month) THEN Timestamp(b.year + 1, 1, 1)
    ELSE IF Unwrap(b.month) = 11 THEN Timestamp(b.year, 1, 1)
    ELSE Timestamp(b.year, Unwrap(b.month) + 2, 1)

end_dt(b) ==
    IF ~IsSome(b.month) THEN Timestamp(b.year + 1, 1, 1)
    ELSE IF Unwrap(b.month) = 11 THEN Timestamp(b.year + 1, 1, 1)
    ELSE Timestamp(b.year, Unwrap(b.month) + 2, 1)

\* A RawCommit as the reader yields it. The committer's name, e-mail and time
\* are stored by insert_raw_commit and read by no query; they are left out.
RawCommit(id, repo_name, author_name, author_email, author_time, n_ins, n_del, per_suffix) ==
    [id |-> id, repo_name |-> repo_name, author_name |-> author_name,
     author_email |-> author_email, author_time |-> author_time,
     n_insertions |-> n_ins, n_deletions |-> n_del,
     n_changes_per_suffix |-> per_suffix]

\* The rowid SQLite gives a new row of a table without AUTOINCREMENT
NewRowid(rows) ==
    IF rows = {} THEN 1
    ELSE (CHOOSE o \in {r.oid : r \in rows} : \A r \in rows : r.oid <= o) + 1

\* insert_raw_commit: the row stored in raw_commits
RawCommitRow(rc, commit) ==
    LET some == IsSome(commit.author_time)
        dt == Unwrap(commit.author_time)
    IN  [oid |-> NewRowid(rc),
         id |-> commit.id,
         repo_name |-> commit.repo_name,
         author_name |-> commit.author_name,
         author_email |-> commit.author_email,
         author_domain |-> email_to_domain(commit.author_email),
         author_time |-> IF some THEN timestamp(dt) ELSE 0,
         author_year |-> IF some THEN year(dt) ELSE 1970,
         author_month |-> IF some THEN month0(dt) ELSE 0,
         n_insertions |-> commit.n_insertions,
         n_deletions |-> commit.n_deletions,
         show_domain |-> TRUE]

\* insert_raw_commit: raw_commits after the insert (id is the primary key,
\* on conflict replace)
InsertedCommits(rc, commit) ==
    {r \in rc : r.id /= commit.id} \cup {RawCommitRow(rc, commit)}

\* insert_raw_commit: suffixes after the inserts, one row per entry of
\* n_changes_per_suffix under the new row's rowid; call tells apart the rows
\* of different insert_raw_commit calls
InsertedSuffixes(sf, rc, commit, call) ==
    sf \cup {[commit_oid |-> NewRowid(rc), suffix |-> x,
              n_changes |-> commit.n_changes_per_suffix[x], call |-> call] :
             x \in DOMAIN commit.n_changes_per_suffix}

\* SQLite's glob with the wildcards * and ?
RECURSIVE glob(_, _)
glob(pattern, text) ==
    IF pattern = << >> THEN text = << >>
    ELSE IF Head(pattern) = "*"
         THEN \/ glob(Tail(pattern), text)
              \/ text /= << >> /\ glob(pattern, Tail(text))
    ELSE /\ text /= << >>
         /\ Head(pattern) = "?" \/ Head(pattern) = Head(text)
         /\ glob(Tail(pattern), Tail(text))

\* AggregatePattern::sql_selector("author_email", "author_time") on a row
sql_selector(ap, r) ==
    /\ glob(ap.pattern, r.author_email)
    /\ IsSome(ap.begin) => r.author_time >= begin_dt(Unwrap(ap.begin))
    /\ IsSome(ap.end) => r.author_time < end_dt(Unwrap(ap.end))

\* DomainMeta::sql_emails_selector on a row: the patterns joined by "or"
sql_emails_selector(domain, r) ==
    \E i \in 1..Len(Unwrap(domain.aggregate_emails)) :
        sql_selector(Unwrap(domain.aggregate_emails)[i], r)

FirstValidYear == 1980

TrimmedCommits_KeepsAll(rc, now_year) ==
    {[r EXCEPT !.show_domain = TRUE] : r \in rc}

\* postprocess: delete the commits with unlikely timestamps, show all domains
TrimmedCommits(rc, now_year) ==
    {[r EXCEPT !.show_domain = TRUE] :
        r \in {x \in rc : ~(x.author_year < FirstValidYear \/ x.author_year > now_year)}}

\* postprocess: the two updates for one DomainMeta. An empty aggregate_emails
\* list gives "where" nothing to parse: the statement fails.
DomainApplied(st, domain) ==
    IF ~st.ok THEN st
    ELSE IF IsSome(domain.aggregate_emails) /\ Len(Unwrap(domain.aggregate_emails)) = 0
    THEN [st EXCEPT !.ok = FALSE]
    ELSE LET mapped ==
                 IF IsSome(domain.aggregate_emails)
                 THEN {IF sql_emails_selector(domain, r)
                       THEN [r EXCEPT !.author_domain = domain.name] ELSE r : r \in st.rc}
                 ELSE st.rc
             shown ==
                 IF IsSome(domain.show)
                 THEN {IF r.author_domain = domain.name
                       THEN [r EXCEPT !.show_domain = Unwrap(domain.show)] ELSE r : r \in mapped}
                 ELSE mapped
         IN  [st EXCEPT !.rc = shown]

RECURSIVE DomainsApplied(_, _)
DomainsApplied(st, domains) ==
    IF domains = << >> THEN st
    ELSE DomainsApplied(DomainApplied(st, Head(domains)), Tail(domains))

\* min, max and sum of SQL: over a non-empty set of numbers, and over the rows
\* of a group with equal terms taken together
MinOf(S) == CHOOSE x \in S : \A y \in S : x <= y
MaxOf(S) == CHOOSE x \in S : \A y \in S : y <= x
IntSum(f) ==
    LET terms == {f[k] : k \in DOMAIN f}
    IN  SumValues([v \in terms |-> v * Cardinality({k \in DOMAIN f : f[k] = v})])

\* postprocess: "create table authors as select ... group by author_name"
AuthorsOf_YearOfFirstEvent(rc) ==
    {LET g == {r \in rc : r.author_name = name}
         first_time == MinOf({r.author_time : r \in g})
         last_time == MaxOf({r.author_time : r \in g})
     IN  [author_name |-> name,
          first_time |-> first_time,
          first_year |-> MinOf({r.author_year : r \in {x \in g : x.author_time = first_time}}),
          last_time |-> last_time,
          last_year |-> MaxOf({r.author_year : r \in g}),
          active_time |-> last_time - first_time,
          n_commits |-> Cardinality(g),
          n_changes |-> IntSum([r \in g |-> r.n_insertions])
                        + IntSum([r \in g |-> r.n_deletions])] :
     name \in {r.author_name : r \in rc}}

\* postprocess: "create table authors as select ... group by author_name"
AuthorsOf(rc) ==
    {LET g == {r \in rc : r.author_name = name}
         first_time == MinOf({r.author_time : r \in g})
         last_time == MaxOf({r.author_time : r \in g})
     IN  [author_name |-> name,
          first_time |-> first_time,
          first_year |-> MinOf({r.author_year : r \in g}),
          last_time |-> last_time,
          last_year |-> MaxOf({r.author_year : r \in g}),
          active_time |-> last_time - first_time,
          n_commits |-> Cardinality(g),
          n_changes |-> IntSum([r \in g |-> r.n_insertions])
                        + IntSum([r \in g |-> r.n_deletions])] :
     name \in {r.author_name : r \in rc}}

\* postprocess(domains): [ok, rc, authors]; domains is an Option of a list
postprocess(rc, au, domains, now_year) ==
    LET st == DomainsApplied([ok |-> TRUE, rc |-> TrimmedCommits(rc, now_year)],
                             IF IsSome(domains) THEN Unwrap(domains) ELSE << >>)
    IN  [ok |-> st.ok, rc |-> st.rc,
         authors |-> IF st.ok THEN AuthorsOf(st.rc) ELSE au]


-----------------------------------------------------------------------------
(* CommitDb: the histogram queries *)

N_ITEMS == 15
BriefSeconds == 60 * 60 * 24 * 90
OtherName == <<"O", "t", "h", "e", "r">>
BriefName == <<"B", "r", "i", "e", "f">>

\* "active_time > (60*60*24*90)" and "active_time <= (60*60*24*90)"
Active_AtLeast(a) == a.active_time >= BriefSeconds
Active(a) == a.active_time > BriefSeconds
Brief(a) == a.active_time <= BriefSeconds

\* A REAL of SQLite that is a sum of quotients of counts, kept exact as a
\* reduced fraction n/d with d > 0
RECURSIVE GCD(_, _)
GCD(a, b) == IF b = 0 THEN a ELSE GCD(b, a % b)
Rat(n, d) == LET g == GCD(n, d) IN [n |-> n \div g, d |-> d \div g]
RatAdd(x, y) == Rat(x.n * y.d + y.n * x.d, x.d * y.d)
RatGe(x, y) == x.n * y.d >= y.n * x.d

RECURSIVE RatSumTerms(_)
RatSumTerms(f) ==
    IF DOMAIN f = {} THEN Rat(0, 1)
    ELSE LET k == CHOOSE k \in DOMAIN f : TRUE
         IN  RatAdd(f[k], RatSumTerms([j \in DOMAIN f \ {k} |-> f[j]]))

\* sum() of SQL over the rows of a group, equal terms taken together
RatSum(f) ==
    LET terms == {f[k] : k \in DOMAIN f}
    IN  RatSumTerms([v \in terms |-> Rat(v.n * Cardinality({k \in DOMAIN f : f[k] = v}), v.d)])

\* "as i32" on a non-negative f64
AsI32(x) == x.n \div x.d

\* "from raw_commits, authors where raw_commits.author_name = authors.author_name"
CommitsWithAuthors(rc, au) ==
    UNION {{[c |-> c, a |-> a] : a \in {x \in au : x.author_name = c.author_name}} : c \in rc}

\* "from raw_commits, suffixes where raw_commits.oid = suffixes.commit_oid"
CommitsWithSuffixes(rc, sf) ==
    UNION {{[c |-> c, s |-> s] : s \in {x \in sf : x.commit_oid = c.oid}} : c \in rc}

\* the group-by key "author_year, author_month" or "author_year", as the bin
\* the row loop builds from it
BinOf(c, interval) ==
    YearMonth(c.author_year, IF interval = "Month" THEN Some(c.author_month) ELSE None)

\* get_hist: the selector of a unit, over the joined rows of one group
selector(unit, g) ==
    IF unit = "Authors" THEN Cardinality({j.c.author_name : j \in g})
    ELSE IF unit = "Commits" THEN Cardinality(g)
    ELSE IntSum([j \in g |-> j.c.n_insertions + j.c.n_deletions])

Row_OtherAsSentinel(b, cohort, exact, name) ==
    [bin |-> b, cohort |-> IF cohort = N_ITEMS + 1 THEN NO_COHORT ELSE cohort,
     exact |-> exact, value |-> AsI32(exact), name |-> name]

\* one result row: the bin, the cohort id, the value "as i32" and the name
Row(b, cohort, exact, name) ==
    [bin |-> b, cohort |-> cohort, exact |-> exact, value |-> AsI32(exact), name |-> name]

RowsByBin_Ungrouped(src, interval, unit, cohort, name) ==
    {Row(BinOf(j.c, interval), cohort, Rat(selector(unit, {j}), 1), name) : j \in src}

\* one select "..., count_sel ... group by interval": a row per bin of src
RowsByBin(src, interval, unit, cohort, name) ==
    {Row(b, cohort, Rat(selector(unit, {j \in src : BinOf(j.c, interval) = b}), 1), name) :
        b \in {BinOf(j.c, interval) : j \in src}}

FirstYearRows_NoBrief(rc, au, interval, unit) ==
    LET joined == CommitsWithAuthors(rc, au)
    IN  UNION {RowsByBin({j \in joined : j.a.first_year = y}, interval, unit, y, to_string(y)) :
               y \in {j.a.first_year : j \in joined}}

FirstYearRows_ByEventYear(rc, au, interval, unit) ==
    LET joined == CommitsWithAuthors(rc, au)
        active == {j \in joined : Active(j.a)}
        brief == {j \in joined : Brief(j.a)}
    IN  UNION {RowsByBin({j \in active : j.c.author_year = y}, interval, unit, y, to_string(y)) :
               y \in {j.c.author_year : j \in active}}
        \cup RowsByBin(brief, interval, unit, NO_COHORT, to_string(NO_COHORT))

\* get_firstyear_hist: the rows of the query; the loop names a cohort by its number
FirstYearRows(rc, au, interval, unit) ==
    LET joined == CommitsWithAuthors(rc, au)
        active == {j \in joined : Active(j.a)}
        brief == {j \in joined : Brief(j.a)}
    IN  UNION {RowsByBin({j \in active : j.a.first_year = y}, interval, unit, y, to_string(y)) :
               y \in {j.a.first_year : j \in active}}
        \cup RowsByBin(brief, interval, unit, NO_COHORT, to_string(NO_COHORT))

\* "order by metric desc limit n": every order of the n first rows that the
\* metric allows, ties in any order
RECURSIVE Rankings_Ascending(_, _, _)
Rankings_Ascending(cands, metric, n) ==
    IF cands = {} \/ n = 0 THEN {<< >>}
    ELSE UNION {{<<c>> \o r : r \in Rankings_Ascending(cands \ {c}, metric, n - 1)} :
                c \in {x \in cands : \A y \in cands : RatGe(metric[y], metric[x])}}

RECURSIVE Rankings(_, _, _)
Rankings(cands, metric, n) ==
    IF cands = {} \/ n = 0 THEN {<< >>}
    ELSE UNION {{<<c>> \o r : r \in Rankings(cands \ {c}, metric, n - 1)} :
                c \in {x \in cands : \A y \in cands : RatGe(metric[x], metric[y])}}

Range(seq) == {seq[i] : i \in 1..Len(seq)}

ColumnOf(column, c) == IF column = "author_domain" THEN c.author_domain ELSE c.repo_name

\* get_column_hist: the rows "create table {column}_top" may hold
ColumnTopChoices(rc, au, column, unit) ==
    LET src == {j \in CommitsWithAuthors(rc, au) : j.c.show_domain /\ Active(j.a)}
        cands == {ColumnOf(column, j.c) : j \in src}
        metric == [x \in cands |->
                      Rat(selector(unit, {j \in src : ColumnOf(column, j.c) = x}), 1)]
    IN  Rankings(cands, metric, N_ITEMS)

\* get_column_hist: the joined rows the selects of the named cohorts and of
\* "Other" read
ColumnNamedSource(joined, column, t, i) ==
    {j \in joined : ColumnOf(column, j.c) = t[i] /\ Active(j.a)}

ColumnOtherSource_All(joined, column, t) == {j \in joined : Active(j.a)}

ColumnOtherSource(joined, column, t) ==
    {j \in joined : ColumnOf(column, j.c) \notin Range(t) /\ Active(j.a)}

\* get_column_hist: the rows of the union, given the top table t
ColumnRows(rc, au, column, interval, unit, t) ==
    LET joined == CommitsWithAuthors(rc, au)
    IN  UNION {RowsByBin(ColumnNamedSource(joined, column, t, i), interval, unit,
                         N_ITEMS + 1 - i, t[i]) : i \in 1..Len(t)}
        \cup RowsByBin(ColumnOtherSource(joined, column, t), interval, unit,
                       N_ITEMS + 1, OtherName)
        \cup RowsByBin({j \in joined : Brief(j.a)}, interval, unit, NO_COHORT, BriefName)

\* format_column_aggregates_from_where: the rows "from ... where show_domain = true"
AggregateSource_IgnoresShow(rc, sf, column) ==
    IF column = "suffix"
    THEN {[c |-> j.c, col |-> j.s.suffix] : j \in CommitsWithSuffixes(rc, sf)}
    ELSE {[c |-> c, col |-> ColumnOf(column, c)] : c \in rc}

AggregateSource(rc, sf, column) ==
    IF column = "suffix"
    THEN {[c |-> j.c, col |-> j.s.suffix] :
             j \in {x \in CommitsWithSuffixes(rc, sf) : x.c.show_domain}}
    ELSE {[c |-> c, col |-> ColumnOf(column, c)] : c \in {x \in rc : x.show_domain}}

\* create_column_*_aggregates: subquery a, count(*) per (bin, author_name)
AuthorCounts(rc, sf, column, interval) ==
    LET src == AggregateSource(rc, sf, column)
    IN  {[bin |-> k[1], author_name |-> k[2],
          author_count |-> Cardinality({x \in src : BinOf(x.c, interval) = k[1]
                                                    /\ x.c.author_name = k[2]})] :
         k \in {<<BinOf(x.c, interval), x.c.author_name>> : x \in src}}

\* create_column_*_aggregates: subquery b, count(*) per (bin, author_name, column)
AuthorColumnCounts_AllRows(rc, sf, column, interval) ==
    LET src == AggregateSource_IgnoresShow(rc, sf, column)
    IN  {[bin |-> k[1], author_name |-> k[2], col |-> k[3],
          author_column_count |-> Cardinality({x \in src : BinOf(x.c, interval) = k[1]
                                                           /\ x.c.author_name = k[2]
                                                           /\ x.col = k[3]})] :
         k \in {<<BinOf(x.c, interval), x.c.author_name, x.col>> : x \in src}}

AuthorColumnCounts(rc, sf, column, interval) ==
    LET src == AggregateSource(rc, sf, column)
    IN  {[bin |-> k[1], author_name |-> k[2], col |-> k[3],
          author_column_count |-> Cardinality({x \in src : BinOf(x.c, interval) = k[1]
                                                           /\ x.c.author_name = k[2]
                                                           /\ x.col = k[3]})] :
         k \in {<<BinOf(x.c, interval), x.c.author_name, x.col>> : x \in src}}

\* create_column_*_aggregates: the join "from authors, a, b where ..."
AggregateJoin(rc, sf, au, column, interval) ==
    LET a_rows == AuthorCounts(rc, sf, column, interval)
        b_rows == AuthorColumnCounts(rc, sf, column, interval)
    IN  UNION {{[a |-> a, b |-> b, author |-> w] :
                  a \in {x \in a_rows : x.bin = b.bin /\ x.author_name = b.author_name},
                  w \in {x \in au : x.author_name = b.author_name /\ Active(x)}} :
               b \in b_rows}

\* create_column_*_aggregates: the table, with active_author_sum as sum
ColumnAggregates(rc, sf, au, column, interval) ==
    LET joined == AggregateJoin(rc, sf, au, column, interval)
    IN  {[bin |-> k[1], col |-> k[2],
          sum |-> RatSum([j \in {x \in joined : x.b.bin = k[1] /\ x.b.col = k[2]} |->
                             Rat(j.b.author_column_count, j.a.author_count)])] :
         k \in {<<j.b.bin, j.b.col>> : j \in joined}}

create_column_year_aggregates(rc, sf, au, column) ==
    ColumnAggregates(rc, sf, au, column, "Year")

create_column_month_aggregates(rc, sf, au, column) ==
    ColumnAggregates(rc, sf, au, column, "Month")

\* create_subcommit_year_aggregates: the table, with column_sum as sum
create_subcommit_year_aggregates(rc, sf, au) ==
    LET b_src == {j \in CommitsWithSuffixes(rc, sf) :
                     /\ j.c.show_domain
                     /\ \E w \in au : w.author_name = j.c.author_name /\ Active(w)}
        b_rows == {[commit_oid |-> k[1], suffix |-> k[2],
                    author_year |-> (CHOOSE j \in b_src : j.c.oid = k[1]).c.author_year,
                    suffix_count |-> Cardinality({j \in b_src : j.c.oid = k[1]
                                                               /\ j.s.suffix = k[2]}),
                    commit_count |-> Cardinality({x \in sf : x.commit_oid = k[1]})] :
                   k \in {<<j.c.oid, j.s.suffix>> : j \in b_src}}
    IN  {[bin |-> YearMonth(k[1], None), col |-> k[2],
          sum |-> RatSum([b \in {x \in b_rows : x.author_year = k[1] /\ x.suffix = k[2]} |->
                             Rat(b.suffix_count, b.commit_count)])] :
         k \in {<<b.author_year, b.suffix>> : b \in b_rows}}

\* get_column_authors_hist / get_subcommit_hist: the rows "create table
\* {column}_top" may hold, ranked by the sum over the aggregate table
AggregateTopChoices(agg) ==
    LET cands == {r.col : r \in agg}
        metric == [x \in cands |-> RatSum([r \in {y \in agg : y.col = x} |-> r.sum])]
    IN  Rankings(cands, metric, N_ITEMS)

\* the aggregate rows the first two selects of the union read
AggregateNamedSource(agg, t, i) == {r \in agg : r.col = t[i]}

AggregateOtherSource_All(agg, t) == agg

AggregateOtherSource(agg, t) == {r \in agg : r.col \notin Range(t)}

SumByBin(src, cohort, name) ==
    {Row(b, cohort, RatSum([r \in {x \in src : x.bin = b} |-> r.sum]), name) :
        b \in {r.bin : r \in src}}

\* get_column_authors_hist / get_subcommit_hist: the rows of the union
AggregateRows(rc, au, agg, interval, t) ==
    UNION {SumByBin(AggregateNamedSource(agg, t, i), N_ITEMS + 1 - i, t[i]) : i \in 1..Len(t)}
    \cup SumByBin(AggregateOtherSource(agg, t), N_ITEMS + 1, OtherName)
    \cup RowsByBin({j \in CommitsWithAuthors(rc, au) : j.c.show_domain /\ Brief(j.a)},
                   interval, "Authors", NO_COHORT, BriefName)

\* the row loops: hist.set_value and hist.set_cohort_name for every row
RECURSIVE HistOfRows(_, _)
HistOfRows(h, rows) ==
    IF rows = {} THEN h
    ELSE LET r == CHOOSE r \in rows : TRUE
         IN  HistOfRows(set_cohort_name(set_value(h, r.bin, r.cohort, r.value),
                                        r.cohort, r.name),
                        rows \ {r})

ColumnName(cohort) ==
    IF cohort = "Domain" THEN "author_domain"
    ELSE IF cohort = "Repo" THEN "repo_name"
    ELSE "suffix"

\* get_hist: which of the four functions runs
Strategy(r) ==
    IF r.cohort = "FirstYear" THEN "firstyear"
    ELSE IF r.unit = "Authors" THEN "column_authors"
    ELSE IF r.cohort = "Suffix" THEN "subcommit"
    ELSE "column"

\* The columns of the "{column}_{interval}_aggregates" table a strategy
\* creates: create_subcommit_year_aggregates for the subcommit strategy by
\* year, create_column_year_aggregates and create_column_month_aggregates
\* otherwise; get_firstyear_hist and get_column_hist create no such table
AggregateColumns(r) ==
    IF Strategy(r) \in {"firstyear", "column"} THEN {}
    ELSE {"year", ColumnName(r.cohort)}
         \cup (IF r.interval = "Month" THEN {"month"} ELSE {})
         \cup (IF Strategy(r) = "subcommit" /\ r.interval = "Year"
               THEN {"column_sum"} ELSE {"active_author_sum"})

\* The columns of that table the strategy's statements name
AggregateColumnsRead(r) ==
    IF Strategy(r) \in {"firstyear", "column"} THEN {}
    ELSE {"year", ColumnName(r.cohort)}
         \cup (IF r.interval = "Month" THEN {"month"} ELSE {})
         \cup (IF Strategy(r) = "subcommit" THEN {"column_sum"} ELSE {"active_author_sum"})

\* A statement that names a column its table does not have fails: by month
\* get_subcommit_hist creates suffix_month_aggregates, which has no
\* column_sum, and "create table suffix_top" fails after suffix_top was dropped
QueryFails(r) == ~(AggregateColumnsRead(r) \subseteq AggregateColumns(r))

\* the aggregate table a strategy creates and reads
AggregatesFor(r, rc, sf, au) ==
    IF Strategy(r) = "subcommit" THEN create_subcommit_year_aggregates(rc, sf, au)
    ELSE IF r.interval = "Year"
    THEN create_column_year_aggregates(rc, sf, au, ColumnName(r.cohort))
    ELSE create_column_month_aggregates(rc, sf, au, ColumnName(r.cohort))

\* the contents "create table {column}_top" may give the table
TopChoices(r, rc, sf, au, old_top) ==
    IF Strategy(r) = "firstyear" THEN {old_top}
    ELSE IF QueryFails(r) THEN {<< >>}
    ELSE IF Strategy(r) = "column"
    THEN ColumnTopChoices(rc, au, ColumnName(r.cohort), r.unit)
    ELSE AggregateTopChoices(AggregatesFor(r, rc, sf, au))

\* the rows of the strategy's query
QueryRows(r, rc, sf, au, t) ==
    IF Strategy(r) = "firstyear" THEN FirstYearRows(rc, au, r.interval, r.unit)
    ELSE IF Strategy(r) = "column"
    THEN ColumnRows(rc, au, ColumnName(r.cohort), r.interval, r.unit, t)
    ELSE AggregateRows(rc, au, AggregatesFor(r, rc, sf, au), r.interval, t)

\* The set_value calls of one query loop: how many rows carry each key
SetCalls(rows) ==
    [k \in {<<r.bin, r.cohort>> : r \in rows} |->
        Cardinality({r \in rows : <<r.bin, r.cohort>> = k})]

\* get_hist: the histogram filled from the rows of the strategy's query
HistOf(r, rows) ==
    LET h == HistOfRows(new, rows)
    IN  IF Strategy(r) = "column" THEN h
        ELSE set_cohort_name(h, NO_COHORT, BriefName)

\* get_hist on a postprocessed store, given the top table t
get_hist(r, rc, sf, au, t) == HistOf(r, QueryRows(r, rc, sf, au, t))


-----------------------------------------------------------------------------
(* The two commands: ingest and plot *)

\* ProjectMeta with its domains only; DomainMeta { name, show, aggregate_emails }
DomainMeta(name, show, aggregate_emails) ==
    [name |-> name, show |-> show, aggregate_emails |-> aggregate_emails]

ProjectMeta(domains) == [domains |-> domains]

Request(cohort, unit, interval) == [cohort |-> cohort, unit |-> unit, interval |-> interval]

CohortTypes == {"FirstYear", "Domain", "Repo", "Suffix"}
UnitTypes == {"Authors", "Commits", "Changes"}
IntervalTypes == {"Month", "Year"}

\* run_ingest: the loop "for commit in gcr { cdb.insert_raw_commit(&commit) }"
\* over the commits a reader yields; st is [rc, sf, n]
insert_raw_commit(st, commit) ==
    [rc |-> InsertedCommits(st.rc, commit),
     sf |-> InsertedSuffixes(st.sf, st.rc, commit, st.n + 1),
     n |-> st.n + 1]

\* the loop, run as two halves one after the other; the store between them
\* is computed before the second half starts
RECURSIVE InsertAll(_, _)
InsertAll(st, commits) ==
    IF commits = << >> THEN st
    ELSE IF Len(commits) = 1 THEN insert_raw_commit(st, commits[1])
    ELSE LET half == Len(commits) \div 2
         IN  CHOOSE done \in {InsertAll(mid, SubSeq(commits, half + 1, Len(commits))) :
                                 mid \in {InsertAll(st, SubSeq(commits, 1, half))}} : TRUE

\* The strings of the inputs
Str ==
    [alice |-> <<"a", "l", "i", "c", "e">>, bob |-> <<"b", "o", "b">>,
     carol |-> <<"c", "a", "r", "o", "l">>,
     A |-> <<"A">>, B |-> <<"B">>, C |-> <<"C">>,
     R1 |-> <<"R", "1">>, R2 |-> <<"R", "2">>,
     rs |-> <<"r", "s">>, md |-> <<"m", "d">>,
     a_x_io |-> <<"a", "@", "x", ".", "i", "o">>,
     a_m_Y_com |-> <<"a", "@", "m", ".", "Y", ".", "c", "o", "m">>,
     b_x_io |-> <<"b", "@", "x", ".", "i", "o">>,
     y_com |-> <<"y", ".", "c", "o", "m">>]

Utc(ts) == Some(DateTime(ts, 0))

\* The metadata files and the clock of the plot runs
MetaChoices ==
    {ProjectMeta(None),
     ProjectMeta(Some(<<DomainMeta(Str.y_com, Some(FALSE), None)>>))}

NowYears == {2026}

\* run_ingest on the next batch of the log: a process without a histogram.
\* A "{column}_top" table is dropped and created again by every query that
\* reads one, so top holds the table of the latest query only.
RunIngest ==
    /\ log /= << >>
    /\ LET st == InsertAll([rc |-> raw_commits, sf |-> suffixes, n |-> n_inserts], Head(log))
       IN  /\ raw_commits' = st.rc
           /\ suffixes' = st.sf
           /\ n_inserts' = st.n
    /\ log' = Tail(log)
    /\ hist' = new
    /\ calls' = EmptyMap
    /\ result' = "none"
    /\ req' = None
    /\ top' = << >>
    /\ UNCHANGED <<authors, n_sets, names_set, binVars, readerVars>>

\* run_plot up to the call of the plotter: postprocess, then get_hist. A plot
\* run that follows another one computes show_domain, authors, the top table
\* and the histogram anew from what the first left, so the runs explored are
\* those that follow an ingest run.
RunPlotWith(metas) ==
    /\ result = "none"
    /\ \E cohort \in CohortTypes, unit \in UnitTypes, interval \in IntervalTypes,
          meta \in metas, now_year \in NowYears :
           LET r == Request(cohort, unit, interval)
               p == postprocess(raw_commits, authors, meta.domains, now_year)
           IN  /\ req' = Some(r)
               /\ raw_commits' = p.rc
               /\ authors' = p.authors
               /\ IF ~p.ok \/ QueryFails(r)
                  THEN /\ result' = "err"
                       /\ hist' = new
                       /\ calls' = EmptyMap
                       /\ top' = << >>
                  ELSE /\ result' = "ok"
                       /\ \E t \in TopChoices(r, p.rc, suffixes, p.authors, << >>) :
                              LET rows == QueryRows(r, p.rc, suffixes, p.authors, t)
                              IN  /\ top' = t
                                  /\ hist' = HistOf(r, rows)
                                  /\ calls' = SetCalls(rows)
    /\ UNCHANGED <<suffixes, log, n_inserts, n_sets, names_set, binVars, readerVars>>

\* a plot command with one of the metadata files above
RunPlot == RunPlotWith(MetaChoices)

Next == RunIngest \/ RunPlot

\* The commits of two small repositories, from 2019-01-10 12:00:00 UTC on:
\* alice is above the threshold with any two of her commits, one of them from
\* the domain a metadata file hides and one without suffixes; bob's two
\* commits are exactly 90 days apart
Pool ==
    LET T0 == Timestamp(2019, 1, 10) + 12 * 60 * 60
    IN  [k1 |-> RawCommit("k1", Str.R1, Str.alice, Str.a_x_io, Utc(T0), 2, 1, Str.rs :> 3),
         k2 |-> RawCommit("k2", Str.R2, Str.alice, Str.a_m_Y_com,
                          Utc(T0 + 10 * SecondsPerDay), 1, 1, (Str.rs :> 1) @@ (Str.md :> 1)),
         k3 |-> RawCommit("k3", Str.R1, Str.alice, Str.a_x_io,
                          Utc(T0 + 100 * SecondsPerDay + 1), 0, 0, EmptyMap),
         k4 |-> RawCommit("k4", Str.R1, Str.bob, Str.b_x_io, Utc(T0), 1, 0, Str.md :> 1),
         k5 |-> RawCommit("k5", Str.R2, Str.bob, Str.b_x_io,
                          Utc(T0 + 90 * SecondsPerDay), 1, 2, Str.rs :> 3)]

\* What the reader of one ingest run may yield
Batches ==
    {<<Pool.k1>>, <<Pool.k2>>, <<Pool.k3>>, <<Pool.k4>>, <<Pool.k5>>,
     <<Pool.k1, Pool.k3>>, <<Pool.k4, Pool.k5>>}

\* The logs: MaxLog ingest runs
RECURSIVE SeqsOfLen(_, _)
SeqsOfLen(S, n) ==
    IF n = 0 THEN {<< >>}
    ELSE UNION {{<<x>> \o q : q \in SeqsOfLen(S, n - 1)} : x \in S}

EmptyStore ==
    /\ raw_commits = {}
    /\ suffixes = {}
    /\ authors = {}
    /\ top = << >>
    /\ result = "none"
    /\ req = None
    /\ n_inserts = 0
    /\ hist = new
    /\ n_sets = 0
    /\ calls = EmptyMap
    /\ names_set = EmptyMap
    /\ ym = YearMonth(MinYear, None)
    /\ ym_from = ym
    /\ ym_op = "init"
    /\ NoReader

Init ==
    /\ log \in SeqsOfLen(Batches, MaxLog)
    /\ EmptyStore

Spec == Init /\ [][Next]_vars

-----------------------------------------------------------------------------
(* SpecScenario: three authors with one event each in January 2020 *)

\* A: first event in 2019, 400 days; B: first event in 2020, 10 days;
\* C: first event in 2020, 400 days
Scenario ==
    LET a19 == Timestamp(2019, 1, 5)
        b20 == Timestamp(2020, 1, 25)
        c20 == Timestamp(2020, 1, 10)
    IN  [A1 |-> RawCommit("A1", Str.R1, Str.A, Str.a_x_io, Utc(a19), 1, 0, Str.rs :> 1),
         A2 |-> RawCommit("A2", Str.R1, Str.A, Str.a_x_io, Utc(Timestamp(2020, 1, 15)), 1, 0,
                          Str.rs :> 1),
         A3 |-> RawCommit("A3", Str.R2, Str.A, Str.a_x_io, Utc(a19 + 400 * SecondsPerDay), 1, 0,
                          Str.md :> 1),
         B1 |-> RawCommit("B1", Str.R1, Str.B, Str.b_x_io, Utc(b20), 1, 1, Str.rs :> 2),
         B2 |-> RawCommit("B2", Str.R1, Str.B, Str.b_x_io, Utc(b20 + 10 * SecondsPerDay), 1, 0,
                          Str.rs :> 1),
         C1 |-> RawCommit("C1", Str.R2, Str.C, Str.a_m_Y_com, Utc(c20), 2, 0, Str.md :> 2),
         C2 |-> RawCommit("C2", Str.R2, Str.C, Str.a_m_Y_com, Utc(c20 + 400 * SecondsPerDay), 1, 0,
                          Str.md :> 1)]

\* The ingest runs that store the scenario: by author in any order, one
\* repository after the other, or as the history grew
InitScenario ==
    /\ LET c == Scenario
       IN  log \in {<<x, y, z>> : x, y, z \in {<<c.A1, c.A2, c.A3>>, <<c.B1, c.B2>>,
                                              <<c.C1, c.C2>>}}
                   \cup {<<<<c.A1, c.A2, c.B1, c.B2>>, <<c.A3, c.C1, c.C2>>>>,
                         <<<<c.A1>>, <<c.C1, c.A2, c.B1>>, <<c.B2, c.A3, c.C2>>>>}
    /\ EmptyStore

SpecScenario == InitScenario /\ [][Next]_vars

-----------------------------------------------------------------------------
(* SpecTopN: more categories than the top table holds *)

\* A commit of category i: its own repository, e-mail domain and suffix,
\* or the hidden domain
CategoryCommit(id, name, i, time, hidden) ==
    LET letter == <<"a", "b", "c", "d", "e", "f", "g", "h", "i", "j", "k", "l", "m", "n",
                    "o", "p", "q">>[i]
        host == IF hidden THEN Str.y_com ELSE <<letter, ".", "i", "o">>
    IN  RawCommit(id, <<"r", letter>>, name, <<"c", "@">> \o host, Utc(time), 1, 0,
                  <<letter>> :> 1)

\* carol's j-th commit of category i
Filler(i, j) ==
    CategoryCommit(<<"f">> \o NatToString(i) \o <<"_">> \o NatToString(j), Str.carol, i,
                   Timestamp(2020, IF i = 1 THEN 6 ELSE 1, j) + i, FALSE)

\* N_ITEMS - 1 categories, category i with i + 1 commits: no two categories
\* rank equal under any unit
RECURSIVE FillerLog(_)
FillerLog(i) ==
    IF i > N_ITEMS - 1 THEN << >>
    ELSE [j \in 1..(i + 1) |-> Filler(i, j)] \o FillerLog(i + 1)

\* Two more categories of one commit each, a category of a single-commit
\* author, and commits of categories 3 and 5 from the hidden domain
Extras ==
    [e1 |-> CategoryCommit(<<"e", "1">>, Str.carol, N_ITEMS, Timestamp(2020, 6, 20), FALSE),
     e2 |-> CategoryCommit(<<"e", "2">>, Str.carol, N_ITEMS + 1, Timestamp(2020, 6, 21), FALSE),
     bx |-> CategoryCommit(<<"b", "x">>, Str.bob, N_ITEMS + 2, Timestamp(2020, 6, 22), FALSE),
     h1 |-> CategoryCommit(<<"h", "1">>, Str.carol, 3, Timestamp(2020, 6, 23), TRUE),
     h2 |-> CategoryCommit(<<"h", "2">>, Str.carol, 5, Timestamp(2020, 6, 24), TRUE)]

InitTopN ==
    /\ log = <<FillerLog(1), <<Extras.e1>>, <<Extras.e2, Extras.bx, Extras.h1, Extras.h2>>>>
    /\ EmptyStore

SpecTopN == InitTopN /\ [][Next]_vars

-----------------------------------------------------------------------------
(* SpecTenure: authors whose commits carry different UTC offsets *)

\* dana: d1 is her earliest commit, half an hour into 2020 at offset 0; d2
\* follows half an hour later at offset -10:00, dated 2019-12-31 locally.
\* erin: e1 is dated 2018-01-01 at offset +02:00, an hour before 2018 in UTC;
\* no author starts in the year between hers and dana's.
Travel ==
    LET dana == <<"d", "a", "n", "a">>
        erin == <<"e", "r", "i", "n">>
        Y2020 == Timestamp(2020, 1, 1)
        Y2018 == Timestamp(2018, 1, 1)
    IN  [d1 |-> RawCommit("d1", Str.R1, dana, Str.a_x_io,
                          Some(DateTime(Y2020 + 30 * 60, 0)), 1, 0, Str.rs :> 1),
         d2 |-> RawCommit("d2", Str.R1, dana, Str.a_x_io,
                          Some(DateTime(Y2020 + 60 * 60, -10 * 60 * 60)), 2, 0, Str.rs :> 2),
         d3 |-> RawCommit("d3", Str.R2, dana, Str.a_x_io,
                          Some(DateTime(Y2020 + 200 * SecondsPerDay, 0)), 0, 4, Str.md :> 4),
         e1 |-> RawCommit("e1", Str.R2, erin, Str.b_x_io,
                          Some(DateTime(Y2018 - 60 * 60, 2 * 60 * 60)), 1, 1, Str.rs :> 2),
         e2 |-> RawCommit("e2", Str.R2, erin, Str.b_x_io,
                          Some(DateTime(Y2018 + 150 * SecondsPerDay, 0)), 3, 0, Str.md :> 3)]

TravelBatches ==
    {<<Travel.d1, Travel.d2, Travel.d3>>, <<Travel.d1, Travel.d3>>,
     <<Travel.e1, Travel.e2>>, <<Travel.d2, Travel.e1>>}

InitTenure ==
    /\ log \in SeqsOfLen(TravelBatches, MaxLog)
    /\ EmptyStore

SpecTenure == InitTenure /\ [][Next]_vars


-----------------------------------------------------------------------------
(* SpecStore: commits without an author time, commits read again, and a
   metadata file that maps e-mail addresses to a domain *)

\* alice's u1 and u2 are 100 days apart. n1 is hers too and n2 is zed's only
\* commit: both have author_time None, and n1 alone touches a "zz" file.
Odd ==
    LET T0 == Timestamp(2019, 1, 10) + 12 * 60 * 60
        zed == <<"z", "e", "d">>
        zz == <<"z", "z">>
    IN  [u1 |-> RawCommit("u1", Str.R1, Str.alice, Str.a_x_io, Utc(T0), 2, 1, Str.rs :> 3),
         u2 |-> RawCommit("u2", Str.R1, Str.alice, Str.a_x_io,
                          Utc(T0 + 100 * SecondsPerDay + 1), 1, 1, Str.rs :> 1),
         n1 |-> RawCommit("n1", Str.R1, Str.alice, Str.a_x_io, None, 4, 0, zz :> 4),
         n2 |-> RawCommit("n2", Str.R2, zed, Str.b_x_io, None, 1, 0, EmptyMap),
         zed |-> zed, zz |-> zz,
         corp |-> <<"c", "o", "r", "p">>,
         a_star |-> <<"a", "@", "*">>]

\* What the reader of one ingest run may yield; an incremental run reads the
\* latest stored commit of the repository again
OddBatches ==
    {<<Odd.u1>>, <<Odd.u2>>, <<Odd.u1, Odd.u2>>, <<Odd.u1, Odd.n1>>,
     <<Odd.n2, Odd.u1>>, <<Odd.n1, Odd.u1, Odd.u2>>}

\* No metadata file, or one whose domain "corp" gathers the addresses "a@*"
StoreMetas ==
    {ProjectMeta(None),
     ProjectMeta(Some(<<DomainMeta(Odd.corp, None,
                                   Some(<<[pattern |-> Odd.a_star, begin |-> None,
                                           end |-> None]>>))>>))}

InitStore ==
    /\ log \in SeqsOfLen(OddBatches, MaxLog)
    /\ EmptyStore

\* ingest runs and plot runs with one of these metadata files
SpecStore == InitStore /\ [][RunIngest \/ RunPlotWith(StoreMetas)]_vars


-----------------------------------------------------------------------------
(* GitCommitReader: the iterator over the lines of "git log --stat" *)

\* SpecReader: the number of lines of git's output
MaxLines == 4

\* A line of the output is a record of what the reader's regular expressions
\* find in it: kind "header" if commit_re matches, with the fields between
\* the "__sep__"; ins and del, what insertions_re and deletions_re capture;
\* file, the path and the number file_changes_re captures
commit_re_is_match(line) == line.kind = "header"

\* suffix_re ".*[./](.+)$": what follows the last '.' or '/' that is not the
\* last character of the path
suffix_re_capture(path) ==
    LET seps == {p \in 1..(Len(path) - 1) : path[p] \in {".", "/"}}
    IN  IF seps = {} THEN None
        ELSE Some(SubSeq(path, (CHOOSE p \in seps : \A q \in seps : q <= p) + 1, Len(path)))

\* GitCommitReader::add_path_changes
add_path_changes(commit, path, n_changes) ==
    LET suffix == IF IsSome(suffix_re_capture(path)) THEN Unwrap(suffix_re_capture(path))
                  ELSE path
        old == IF Has(commit.n_changes_per_suffix, suffix)
               THEN commit.n_changes_per_suffix[suffix] ELSE 0
    IN  [commit EXCEPT !.n_changes_per_suffix = Put(@, suffix, old + n_changes)]

\* next(): the fields set from the header line
CommitOfHeader(line, repo_name) ==
    RawCommit(line.id, repo_name, line.aN, to_lowercase(line.aE), Some(Unwrap(line.aD)),
              0, 0, EmptyMap)

\* next(): the body of the second loop for one line that is no header
WithStatistics(commit, line) ==
    LET counted == [commit EXCEPT
                        !.n_insertions = @ + unwrap_or(line.ins, 0),
                        !.n_deletions = @ + unwrap_or(line.del, 0)]
    IN  IF IsSome(line.file)
        THEN add_path_changes(counted, Unwrap(line.file).path, Unwrap(line.file).n_changes)
        ELSE counted

\* next(): the first loop takes lines up to the first one commit_re matches;
\* 0 if it runs out of lines
FirstHeader(lines) ==
    IF \E i \in 1..Len(lines) : commit_re_is_match(lines[i])
    THEN CHOOSE i \in 1..Len(lines) :
             /\ commit_re_is_match(lines[i])
             /\ \A j \in 1..(i - 1) : ~commit_re_is_match(lines[j])
    ELSE 0

StatsEnd_TakesNextHeader(lines, i) ==
    IF \E j \in (i + 1)..Len(lines) : commit_re_is_match(lines[j])
    THEN (CHOOSE j \in (i + 1)..Len(lines) :
              /\ commit_re_is_match(lines[j])
              /\ \A k \in (i + 1)..(j - 1) : ~commit_re_is_match(lines[k])) + 1
    ELSE Len(lines) + 1

\* next(): the second loop peeks at the lines after the header at i and
\* stops, without taking it, at the first one commit_re matches, or when the
\* lines run out: the position it stops at
StatsEnd(lines, i) ==
    IF \E j \in (i + 1)..Len(lines) : commit_re_is_match(lines[j])
    THEN CHOOSE j \in (i + 1)..Len(lines) :
             /\ commit_re_is_match(lines[j])
             /\ \A k \in (i + 1)..(j - 1) : ~commit_re_is_match(lines[k])
    ELSE Len(lines) + 1

\* next(): the second loop over the lines from..to
RECURSIVE StatsAdded(_, _, _, _)
StatsAdded(commit, lines, from, to) ==
    IF from > to THEN commit
    ELSE StatsAdded(WithStatistics(commit, lines[from]), lines, from + 1, to)

\* Iterator::next for GitCommitReader, as "for commit in gcr" calls it until
\* it returns None
GcrNext ==
    /\ ~ended
    /\ LET i == FirstHeader(line_splitter)
           j == StatsEnd(line_splitter, i)
       IN  IF i = 0
           THEN /\ ended' = TRUE
                /\ consumed' = consumed \o line_splitter
                /\ line_splitter' = << >>
                /\ UNCHANGED yielded
           ELSE /\ yielded' = Append(yielded,
                                     StatsAdded(CommitOfHeader(line_splitter[i], Str.R1),
                                                line_splitter, i + 1, j - 1))
                /\ consumed' = consumed \o SubSeq(line_splitter, 1, j - 1)
                /\ line_splitter' = SubSeq(line_splitter, j, Len(line_splitter))
                /\ UNCHANGED ended
    /\ UNCHANGED <<binVars, histVars, dbVars, runVars>>

\* Lines of the output: two headers, the second of an author named
\* "7 insertions"; two file lines; a summary line; an empty line
ReaderLines ==
    LET T0 == Timestamp(2019, 1, 10)
        Line(kind, id, aN, aE, aD, ins, del, file) ==
            [kind |-> kind, id |-> id, aN |-> aN, aE |-> aE, aD |-> aD,
             ins |-> ins, del |-> del, file |-> file]
        header(id, aN, aE, aD, ins) == Line("header", id, aN, aE, Some(aD), ins, None, None)
        other(ins, del, file) == Line("other", "", << >>, << >>, None, ins, del, file)
        changed(path, n) == Some([path |-> path, n_changes |-> n])
    IN  {header("a1", Str.alice, <<"a", "@", "X", ".", "i", "o">>, DateTime(T0, 0), None),
         header("b2", <<"7", " ", "i", "n", "s", "e", "r", "t", "i", "o", "n", "s">>,
                Str.b_x_io, DateTime(T0 + SecondsPerDay, 3600), Some(7)),
         other(None, None, changed(<<"s", "/", "m", ".", "r", "s">>, 3)),
         other(None, None, changed(<<"r", "s">>, 1)),
         other(Some(4), Some(1), None),
         other(None, None, None)}

InitReader ==
    /\ line_splitter \in UNION {SeqsOfLen(ReaderLines, n) : n \in 0..MaxLines}
    /\ consumed = << >>
    /\ yielded = << >>
    /\ ended = FALSE
    /\ hist = new
    /\ n_sets = 0
    /\ calls = EmptyMap
    /\ names_set = EmptyMap
    /\ ym = YearMonth(MinYear, None)
    /\ ym_from = ym
    /\ ym_op = "init"
    /\ NoDatabase

SpecReader == InitReader /\ [][GcrNext]_vars


-----------------------------------------------------------------------------
(* SpecBins: a caller stepping a bin with next() and prev() *)

InitBins ==
    /\ ym \in BinsOf(MinYear..MaxYear)
    /\ ym_from = ym
    /\ ym_op = "init"
    /\ hist = new
    /\ n_sets = 0
    /\ calls = EmptyMap
    /\ names_set = EmptyMap
    /\ NoDatabase
    /\ NoReader

StepNext ==
    /\ next(ym).year <= MaxYear
    /\ ym' = next(ym)
    /\ ym_from' = ym
    /\ ym_op' = "next"
    /\ UNCHANGED <<histVars, dbVars, runVars, readerVars>>

StepPrev ==
    /\ prev(ym).year >= MinYear
    /\ ym' = prev(ym)
    /\ ym_from' = ym
    /\ ym_op' = "prev"
    /\ UNCHANGED <<histVars, dbVars, runVars, readerVars>>

NextBins == StepNext \/ StepPrev

SpecBins == InitBins /\ [][NextBins]_vars

-----------------------------------------------------------------------------
(* Claims about next() and prev() *)

\* C7: every bin is strictly below its successor in the derived ordering
\* (year, then month, None below Some), so a run of next() steps is
\* strictly increasing.
C7_NextStrictlyIncreasing ==
    /\ YmLt(ym, next(ym))
    /\ ~YmLe(next(ym), ym)
    /\ ym_op = "next" => YmLt(ym_from, ym)

C7_Witness ==
    /\ ym_op = "next"
    /\ ym_from.month = Some(11)
    /\ ym.year = ym_from.year + 1

\* C8: prev() undoes next() and next() undoes prev(); both always yield a
\* bin of the same granularity with a month in 0..11 (or none).
C8_PrevInvertsNext ==
    /\ prev(next(ym)) = ym
    /\ next(prev(ym)) = ym
    /\ next(ym).month \in Months /\ prev(ym).month \in Months
    /\ IsSome(next(ym).month) = IsSome(ym.month)
    /\ IsSome(prev(ym).month) = IsSome(ym.month)
    /\ ym_op = "next" => prev(ym) = ym_from
    /\ ym_op = "prev" => next(ym) = ym_from

C8_Witness ==
    /\ ym_op = "prev"
    /\ ym_from.month = Some(0)
    /\ ym.month = Some(11)

\* C9: next() of month 11 is month 0 of year+1; of month m in 0..10 it is
\* month m+1 of the same year; of a monthless bin it is the monthless bin
\* of year+1.
C9_NextValues ==
    ym_op = "next" =>
        IF ym_from.month = None
        THEN ym = [year |-> ym_from.year + 1, month |-> None]
        ELSE IF ym_from.month = <<11>>
        THEN ym = [year |-> ym_from.year + 1, month |-> <<0>>]
        ELSE ym = [year |-> ym_from.year, month |-> <<ym_from.month[1] + 1>>]

C9_Witness ==
    /\ ym_op = "next"
    /\ ym_from.month = None
    /\ ym.month = None

-----------------------------------------------------------------------------
(* Claims about to_vecs *)

\* The position of a bin among the bins of its granularity
BinIndex(b) == IF IsSome(b.month) THEN b.year * 12 + Unwrap(b.month) ELSE b.year

SingleGranularity(h) ==
    \A a, b \in DOMAIN h.bins : IsSome(a.month) = IsSome(b.month)

WrittenIndexes(h) == {BinIndex(b) : b \in DOMAIN h.bins}
LowestWritten(h) == CHOOSE i \in WrittenIndexes(h) : \A j \in WrittenIndexes(h) : i <= j
HighestWritten(h) == CHOOSE i \in WrittenIndexes(h) : \A j \in WrittenIndexes(h) : j <= i
Monthly(h) == \A b \in DOMAIN h.bins : IsSome(b.month)

\* rows are the consecutive bins lo..hi of the histogram's granularity
RowsAreExactly(h, rows, lo, hi) ==
    /\ Len(rows) = hi - lo + 1
    /\ \A i \in 1..Len(rows) :
           /\ BinIndex(rows[i][1]) = lo + i - 1
           /\ IsSome(rows[i][1].month) = Monthly(h)
           /\ IsSome(rows[i][1].month) => Unwrap(rows[i][1].month) \in 0..11

\* C1 as stated: for a non-empty histogram of one granularity, to_rows()
\* has one row per bin from the first written bin to the last written bin.
C1_RowsFromFirstWrittenBin ==
    (DOMAIN hist.bins /= {} /\ SingleGranularity(hist)) =>
        RowsAreExactly(hist, to_vecs(hist), LowestWritten(hist), HighestWritten(hist))

\* C1 amended: for a non-empty histogram of one granularity, to_rows() has
\* one row per bin, ascending without gap or repeat, from the first
\* written bin (for monthly bins: from month 0 of the first written bin's
\* year) to the last written bin, written or not.
C1_RowsFromPaddedFirstBin ==
    (DOMAIN hist.bins /= {} /\ SingleGranularity(hist)) =>
        LET lo == LowestWritten(hist)
            start == IF Monthly(hist) THEN lo - (lo % 12) ELSE lo
        IN  RowsAreExactly(hist, to_vecs(hist), start, HighestWritten(hist))

C1_Witness ==
    /\ DOMAIN hist.bins = {YearMonth(2020, Some(10)), YearMonth(2021, Some(1))}
    /\ Len(to_vecs(hist)) = 14
    /\ to_vecs(hist)[1][1] = YearMonth(2020, Some(0))

StoredOrZero(h, b, c) ==
    IF b \in DOMAIN h.bins /\ c \in DOMAIN h.bins[b] THEN h.bins[b][c] ELSE 0

\* C10: a row is (sentinel, sum of the bin's stored values), then (c, stored
\* value or 0) for every c from min_cohort to max_cohort ascending, then
\* (sentinel, stored sentinel value or 0) exactly when a name has been set
\* for the sentinel cohort.
C10_RowShape ==
    LET rows == to_vecs(hist)
        lo == hist.first_cohort
        hi == hist.last_cohort
        n == IF lo <= hi THEN hi - lo + 1 ELSE 0
        named == NO_COHORT \in DOMAIN hist.cohort_names
    IN  \A i \in 1..Len(rows) :
            LET b == rows[i][1]
                cols == rows[i][2]
            IN  /\ Len(cols) = 1 + n + (IF named THEN 1 ELSE 0)
                /\ cols[1] = <<NO_COHORT,
                               IF b \in DOMAIN hist.bins THEN SumValues(hist.bins[b]) ELSE 0>>
                /\ \A k \in 1..n : cols[1 + k] = <<lo + k - 1, StoredOrZero(hist, b, lo + k - 1)>>
                /\ named => cols[Len(cols)] = <<NO_COHORT, StoredOrZero(hist, b, NO_COHORT)>>

C10_Witness ==
    /\ hist.first_cohort = 0 /\ hist.last_cohort = 2
    /\ NO_COHORT \in DOMAIN hist.cohort_names
    /\ Len(to_vecs(hist)) > 1
    /\ Len(to_vecs(hist)[1][2]) = 5

-----------------------------------------------------------------------------
(* Claims about get_bounds and the cohort names *)

\* The keys set_value has been called with, and their bins and cohorts
WrittenKeys == DOMAIN calls
WrittenBins == {k[1] : k \in WrittenKeys}
WrittenCohorts == {k[2] : k \in WrittenKeys} \ {NO_COHORT}

\* The derived order of bins: by year, then a monthless bin before month 0
BinRank(b) == b.year * 13 + (IF IsSome(b.month) THEN Unwrap(b.month) + 1 ELSE 0)

\* C12: bounds() is None exactly when set has never been called; otherwise
\* it holds the smallest and the largest bin ever written and the smallest
\* and the largest non-sentinel cohort ever written; writes to the sentinel
\* leave the cohort bounds as they were (i32::MAX and i32::MIN at first).
C12_BoundsOfAllWrites ==
    /\ get_bounds(hist) = None <=> WrittenKeys = {}
    /\ WrittenKeys /= {} =>
           LET bounds == Unwrap(get_bounds(hist))
           IN  /\ bounds[1] \in WrittenBins /\ bounds[2] \in WrittenBins
               /\ \A b \in WrittenBins :
                      BinRank(bounds[1]) <= BinRank(b) /\ BinRank(b) <= BinRank(bounds[2])
               /\ IF WrittenCohorts = {}
                  THEN bounds[3] = I32Max /\ bounds[4] = I32Min
                  ELSE /\ bounds[3] \in WrittenCohorts /\ bounds[4] \in WrittenCohorts
                       /\ \A c \in WrittenCohorts : bounds[3] <= c /\ c <= bounds[4]

C12_Witness ==
    /\ n_sets = MaxSets
    /\ WrittenKeys = {<<YearMonth(2021, None), 2>>, <<YearMonth(2019, None), NO_COHORT>>,
                      <<YearMonth(2020, Some(10)), 0>>}
    /\ get_bounds(hist) = Some(<<YearMonth(2019, None), YearMonth(2021, None), 0, 2>>)

\* a name that str::trim leaves empty
IsBlank(name) == \A i \in 1..Len(name) : name[i] \in {" ", "\t"}

\* C13 as stated: get_name(cohort) is the empty string both when no name
\* was ever set for the cohort and when the name last set was blank.
C13_BlankNameReadsEmpty ==
    \A c \in HistCohorts :
        (~Has(names_set, c) \/ IsBlank(names_set[c])) => get_cohort_name(hist, c) = << >>

\* C13 amended: get_name(cohort) is the empty string when no name was ever
\* set for the cohort, the placeholder "(blank)" when the name last set was
\* blank, and never empty once a name has been set.
C13_BlankNameReadsPlaceholder ==
    \A c \in HistCohorts :
        /\ ~Has(names_set, c) => get_cohort_name(hist, c) = << >>
        /\ (Has(names_set, c) /\ IsBlank(names_set[c])) =>
               get_cohort_name(hist, c) = <<"(", "b", "l", "a", "n", "k", ")">>
        /\ Has(names_set, c) => get_cohort_name(hist, c) /= << >>

C13_Witness ==
    /\ Has(names_set, 0) /\ names_set[0] = <<" ">>
    /\ Has(names_set, 2) /\ names_set[2] = << >>
    /\ ~Has(names_set, NO_COHORT)
    /\ get_cohort_name(hist, 0) = Blank
    /\ get_cohort_name(hist, NO_COHORT) = << >>

-----------------------------------------------------------------------------
(* Claims about to_csv *)

\* The table as text: its lines, and the '|'-separated fields of each line
CsvLines(h) == split(to_csv(h), "\n")
CsvFields(h) ==
    LET lines == CsvLines(h)
    IN  [i \in 1..Len(lines) |-> split(lines[i], "|")]

AllZero(h) == \A b \in DOMAIN h.bins : \A c \in DOMAIN h.bins[b] : h.bins[b][c] = 0

\* The bin at a position among the bins of the histogram's granularity
BinAt(h, k) ==
    IF Monthly(h) THEN YearMonth(k \div 12, Some(k % 12)) ELSE YearMonth(k, None)

\* The leading fields of the data line of a bin
BinLabel(b) ==
    IF IsSome(b.month)
    THEN <<to_string(b.year), to_string(Unwrap(b.month))>>
    ELSE <<to_string(b.year)>>

NumCohortColumns(h) ==
    IF h.first_cohort <= h.last_cohort THEN h.last_cohort - h.first_cohort + 1 ELSE 0

\* C11: the table of a histogram of one granularity that has bounds but
\* only zero values holds exactly one data line for every bin from the
\* first to the last written bin, and that line shows 0 as its Sum and
\* in every cohort column.
C11_ZeroBinsKeepTheirRows ==
    (DOMAIN hist.bins /= {} /\ SingleGranularity(hist) /\ AllZero(hist)) =>
        LET data == Tail(CsvFields(hist))
        IN  \A k \in LowestWritten(hist)..HighestWritten(hist) :
                LET label == BinLabel(BinAt(hist, k))
                    at == {i \in 1..Len(data) :
                              /\ Len(data[i]) > Len(label)
                              /\ SubSeq(data[i], 1, Len(label)) = label}
                IN  /\ Cardinality(at) = 1
                    /\ \A i \in at :
                           /\ Len(data[i]) >= Len(label) + 1 + NumCohortColumns(hist)
                           /\ \A j \in (Len(label) + 1)..Len(data[i]) : data[i][j] = <<"0">>

C11_Witness ==
    /\ DOMAIN hist.bins = {YearMonth(2019, None), YearMonth(2021, None)}
    /\ AllZero(hist)
    /\ hist.first_cohort = 0 /\ hist.last_cohort = 2
    /\ Len(CsvLines(hist)) = 4
    /\ CsvFields(hist)[3] = <<to_string(2020), <<"0">>, <<"0">>, <<"0">>, <<"0">>>>

\* The number of fields before the cohort columns: Year, Month if monthly, Sum
LeadingFields(h) == IF IsSome(to_vecs(h)[1][1].month) THEN 3 ELSE 2

\* C14: in the header of the table of a histogram that has bounds, no
\* field is empty; the field of every cohort id from min_cohort to
\* max_cohort for which no name was set, written or not, is the
\* placeholder "(blank)"; and a trailing sentinel field follows the cohort
\* fields only when the sentinel has a name, which is then not empty.
C14_NoEmptyColumnName ==
    DOMAIN hist.bins /= {} =>
        LET header == CsvFields(hist)[1]
            lead == LeadingFields(hist)
            n == NumCohortColumns(hist)
        IN  /\ << >> \notin {header[i] : i \in 1..Len(header)}
            /\ Len(header) >= lead + n
            /\ {k \in 1..n : ~Has(names_set, hist.first_cohort + k - 1)}
                   \subseteq {k \in 1..n : SubSeq(header, lead + k, lead + k) = <<Blank>>}
            /\ Len(header) > lead + n =>
                   /\ Len(header) = lead + n + 1
                   /\ Has(names_set, NO_COHORT)
                   /\ SubSeq(header, lead + n + 1, lead + n + 1)
                          = <<get_cohort_name(hist, NO_COHORT)>>

C14_Witness ==
    /\ hist.first_cohort = 0 /\ hist.last_cohort = 2
    /\ DOMAIN names_set = {NO_COHORT}
    /\ \A b \in DOMAIN hist.bins : ~Has(hist.bins[b], 1)
    /\ CsvFields(hist)[1] = <<<<"Y", "e", "a", "r">>, <<"S", "u", "m">>,
                              Blank, Blank, Blank, <<"b">>>>

\* C15: in the table of a histogram that has bounds, the header and every
\* data line have the same number of '|'-separated fields: Year, Month for
\* monthly bins only, Sum, one per cohort id from min_cohort to max_cohort,
\* and one more exactly when the sentinel has a name.
C15_SameFieldCountInEveryLine ==
    DOMAIN hist.bins /= {} =>
        LET fields == CsvFields(hist)
            width == LeadingFields(hist) + NumCohortColumns(hist)
                     + (IF get_cohort_name(hist, NO_COHORT) /= << >> THEN 1 ELSE 0)
        IN  /\ Len(fields) = 1 + Len(to_vecs(hist))
            /\ {Len(fields[i]) : i \in 1..Len(fields)} = {width}

C15_Witness ==
    /\ DOMAIN hist.bins = {YearMonth(2020, Some(10))}
    /\ hist.first_cohort = 0 /\ hist.last_cohort = 2
    /\ Has(names_set, NO_COHORT)
    /\ LET fields == CsvFields(hist)
       IN  Len(fields) = 12 /\ {Len(fields[i]) : i \in 1..12} = {7}

-----------------------------------------------------------------------------
(* Claims about the aggregation engine *)

\* The cells of a histogram: <<bin, cohort, value>>
Cells(h) == UNION {{<<b, c, h.bins[b][c]>> : c \in DOMAIN h.bins[b]} : b \in DOMAIN h.bins}
SentinelCells(h) == {x \in Cells(h) : x[2] = NO_COHORT}
NonSentinelCells(h) == {x \in Cells(h) : x[2] /= NO_COHORT}

\* active_span = last - first over the author's stored events, and the
\* authors at or below 90 days
NinetyDays == 90 * SecondsPerDay
active_span(rc, name) ==
    LET times == {c.author_time : c \in {x \in rc : x.author_name = name}}
    IN  MaxOf(times) - MinOf(times)
BriefAuthors(rc) == {name \in {c.author_name : c \in rc} : active_span(rc, name) <= NinetyDays}

Plotted == result = "ok" /\ IsSome(req)

\* C2: whatever the cohort, unit and interval, the events of the authors at or
\* below 90 days (exactly 90 days and single-event authors included) leave
\* every non-sentinel cell as it is without them, and the sentinel cells are
\* those of these authors' events alone, each in a bin one of them falls in.
C2_BriefOnlyInSentinel ==
    Plotted =>
        LET r == Unwrap(req)
            brief == BriefAuthors(raw_commits)
            rc_brief == {c \in raw_commits : c.author_name \in brief}
            au_brief == {a \in authors : a.author_name \in brief}
            rc_rest == raw_commits \ rc_brief
            au_rest == authors \ au_brief
        IN  /\ top \in TopChoices(r, rc_rest, suffixes, au_rest, top)
            /\ NonSentinelCells(hist)
                   = NonSentinelCells(get_hist(r, rc_rest, suffixes, au_rest, top))
            /\ SentinelCells(get_hist(r, rc_rest, suffixes, au_rest, top)) = {}
            /\ Cells(get_hist(r, rc_brief, suffixes, au_brief, top)) = SentinelCells(hist)
            /\ \A x \in SentinelCells(hist) :
                   \E c \in rc_brief : BinOf(c, r.interval) = x[1]

\* an author at exactly 90 days and one above, both in the histogram
C2_Witness ==
    /\ Plotted
    /\ Unwrap(req).cohort /= "FirstYear"
    /\ \E name \in BriefAuthors(raw_commits) : active_span(raw_commits, name) = NinetyDays
    /\ \E name \in {c.author_name : c \in raw_commits} : name \notin BriefAuthors(raw_commits)
    /\ SentinelCells(hist) /= {}
    /\ NonSentinelCells(hist) /= {}

FractionalAttribution == Plotted /\ Strategy(Unwrap(req)) = "column_authors"

\* the contributions category_count / author_total of one author in one bin,
\* summed over the categories
ContributionSum(r, b, name) ==
    LET joined == AggregateJoin(raw_commits, suffixes, authors, ColumnName(r.cohort), r.interval)
    IN  RatSum([j \in {x \in joined : x.b.bin = b /\ x.b.author_name = name} |->
                   Rat(j.b.author_column_count, j.a.author_count)])

AboveThreshold(rc) ==
    LET brief == BriefAuthors(rc)
    IN  {c \in rc : c.author_name \notin brief}

\* an event that is shown and carries a value of the category
Categorised(r, c) ==
    /\ c.show_domain
    /\ r.cohort = "Suffix" => \E x \in suffixes : x.commit_oid = c.oid

\* C3 as stated: for every bin and every above-threshold author with events in
\* the bin, the contributions sum to exactly 1.
C3_FractionsSumToOne ==
    FractionalAttribution =>
        \A c \in AboveThreshold(raw_commits) :
            ContributionSum(Unwrap(req), BinOf(c, Unwrap(req).interval), c.author_name)
                = Rat(1, 1)

\* C3: for every bin and every above-threshold author with an event in the bin
\* that is shown and carries a value of the category, the contributions sum to
\* exactly 1; an author without such an event in the bin contributes nothing,
\* so the aggregates of a bin sum to the number of such authors.
C3_FractionsSumToOneWhereCounted ==
    FractionalAttribution =>
        LET r == Unwrap(req)
            counted == {c \in AboveThreshold(raw_commits) : Categorised(r, c)}
            agg == AggregatesFor(r, raw_commits, suffixes, authors)
        IN  /\ \A c \in counted :
                   ContributionSum(r, BinOf(c, r.interval), c.author_name) = Rat(1, 1)
            /\ \A c \in AboveThreshold(raw_commits) \ counted :
                   (\A d \in counted : ~(/\ d.author_name = c.author_name
                                          /\ BinOf(d, r.interval) = BinOf(c, r.interval)))
                   => ContributionSum(r, BinOf(c, r.interval), c.author_name) = Rat(0, 1)
            /\ \A b \in {x.bin : x \in agg} \cup {BinOf(c, r.interval) : c \in counted} :
                   RatSum([x \in {y \in agg : y.bin = b} |-> x.sum])
                       = Rat(Cardinality({c.author_name :
                                             c \in {d \in counted : BinOf(d, r.interval) = b}}), 1)

\* an above-threshold author split over two categories of one bin
C3_Witness ==
    /\ FractionalAttribution
    /\ \E j \in AggregateJoin(raw_commits, suffixes, authors,
                              ColumnName(Unwrap(req).cohort), Unwrap(req).interval) :
           /\ j.b.author_column_count < j.a.author_count
           /\ ContributionSum(Unwrap(req), j.b.bin, j.b.author_name) = Rat(1, 1)

Categorical == Plotted /\ Unwrap(req).cohort /= "FirstYear"

OTHER_COHORT == N_ITEMS + 1
CohortIds(h) == {x[2] : x \in NonSentinelCells(h)}

\* the category values an event carries under a request
EventCategories(r, c) ==
    IF r.cohort = "Suffix" THEN {x.suffix : x \in {y \in suffixes : y.commit_oid = c.oid}}
    ELSE {ColumnOf(ColumnName(r.cohort), c)}

\* the categories the ranking chooses from: those of the shown events of
\* above-threshold authors
CandidateCategories(r) ==
    UNION {EventCategories(r, c) : c \in {x \in AboveThreshold(raw_commits) : x.show_domain}}

\* the categories of the events the cells count: get_column_hist counts the
\* events of hidden domains too
CountedCategories(r) ==
    IF Strategy(r) = "column"
    THEN UNION {EventCategories(r, c) : c \in AboveThreshold(raw_commits)}
    ELSE CandidateCategories(r)

Min(a, b) == IF a < b THEN a ELSE b

\* C4 as stated: the cohort ids other than the sentinel are exactly 15 named
\* cohorts plus exactly one "Other" cohort.
C4_FifteenNamedPlusOther ==
    Categorical =>
        /\ OTHER_COHORT \in CohortIds(hist)
        /\ Cardinality(CohortIds(hist) \ {OTHER_COHORT}) = N_ITEMS

\* C4: the cohort ids other than the sentinel are one named cohort per row of
\* the top table, which holds the min(15, number of candidate categories)
\* highest ranked categories without repetition, plus the "Other" cohort
\* exactly when a counted category is outside the top table.
C4_NamedPerTopRowPlusOtherWhenOverflow ==
    Categorical =>
        LET r == Unwrap(req)
        IN  /\ Len(top) = Min(N_ITEMS, Cardinality(CandidateCategories(r)))
            /\ Range(top) \subseteq CandidateCategories(r)
            /\ Cardinality(Range(top)) = Len(top)
            /\ CohortIds(hist) \ {OTHER_COHORT} = {OTHER_COHORT - i : i \in 1..Len(top)}
            /\ OTHER_COHORT \in CohortIds(hist) <=> CountedCategories(r) \ Range(top) /= {}
            /\ Cardinality(CohortIds(hist) \ {OTHER_COHORT}) <= N_ITEMS

\* 15 named cohorts and "Other"
C4_Witness ==
    /\ Categorical
    /\ Len(top) = N_ITEMS
    /\ Cardinality(CohortIds(hist)) = N_ITEMS + 1
    /\ OTHER_COHORT \in CohortIds(hist)

\* the categories whose rows the selects of the named cohorts and the select
\* of "Other" read
NamedCategories(r) ==
    IF Strategy(r) = "column"
    THEN UNION {{ColumnOf(ColumnName(r.cohort), j.c) :
                    j \in ColumnNamedSource(CommitsWithAuthors(raw_commits, authors),
                                            ColumnName(r.cohort), top, i)} : i \in 1..Len(top)}
    ELSE UNION {{x.col : x \in AggregateNamedSource(
                                  AggregatesFor(r, raw_commits, suffixes, authors), top, i)} :
                i \in 1..Len(top)}

OtherCategories(r) ==
    IF Strategy(r) = "column"
    THEN {ColumnOf(ColumnName(r.cohort), j.c) :
             j \in ColumnOtherSource(CommitsWithAuthors(raw_commits, authors),
                                     ColumnName(r.cohort), top)}
    ELSE {x.col : x \in AggregateOtherSource(
                            AggregatesFor(r, raw_commits, suffixes, authors), top)}

\* what the non-sentinel cells have to add up to before truncation: the
\* events or changes of above-threshold authors, the (bin, author) pairs of
\* the fractional attribution, the commits split over their suffixes
CountedWeight(r) ==
    LET above == AboveThreshold(raw_commits)
        counted == {c \in above : Categorised(r, c)}
    IN  IF Strategy(r) = "column"
        THEN IF r.unit = "Commits" THEN Cardinality(above)
             ELSE IntSum([c \in above |-> c.n_insertions + c.n_deletions])
        ELSE IF Strategy(r) = "column_authors"
        THEN Cardinality({<<BinOf(c, r.interval), c.author_name>> : c \in counted})
        ELSE Cardinality(counted)

\* C5: no category contributes both to a named cohort and to "Other", every
\* category of a counted event of an above-threshold author contributes to
\* exactly one of them, and nothing is counted twice or dropped: the cells of
\* the named cohorts and of "Other" add up to the counted weight.
C5_NamedAndOtherPartition ==
    Categorical =>
        LET r == Unwrap(req)
            rows == {x \in QueryRows(r, raw_commits, suffixes, authors, top) :
                        x.cohort /= NO_COHORT}
        IN  /\ NamedCategories(r) \cap OtherCategories(r) = {}
            /\ NamedCategories(r) \cup OtherCategories(r) = CountedCategories(r)
            /\ \A i, j \in 1..Len(top) : top[i] = top[j] => i = j
            /\ NonSentinelCells(hist) = {<<x.bin, x.cohort, AsI32(x.exact)>> : x \in rows}
            /\ RatSum([x \in rows |-> x.exact]) = Rat(CountedWeight(r), 1)

\* a full top table and categories left to "Other", by events or by suffix
C5_Witness ==
    /\ Categorical
    /\ Strategy(Unwrap(req)) \in {"column", "subcommit"}
    /\ Len(top) = N_ITEMS
    /\ OtherCategories(Unwrap(req)) /= {}
    /\ NamedCategories(Unwrap(req)) = Range(top)

Jan2020 == YearMonth(2020, Some(0))
ScenarioStored == {c.id : c \in raw_commits} = {Scenario[k].id : k \in DOMAIN Scenario}

\* C6: with A (first event 2019, 400 days), B (first event 2020, 10 days) and
\* C (first event 2020, 400 days), one event each in January 2020, the
\* tenure/authors/month histogram has in bin 2020-01 the value 1 for cohort
\* 2019, 1 for cohort 2020 and 1 for the Brief sentinel.
C6_ScenarioJanuary2020 ==
    (/\ Plotted
     /\ Unwrap(req) = Request("FirstYear", "Authors", "Month")
     /\ ScenarioStored)
    => /\ get_value(hist, Jan2020, 2019) = Some(1)
       /\ get_value(hist, Jan2020, 2020) = Some(1)
       /\ get_value(hist, Jan2020, NO_COHORT) = Some(1)
       /\ DOMAIN hist.bins[Jan2020] = {2019, 2020, NO_COHORT}
       /\ get_cohort_name(hist, NO_COHORT) = BriefName

\* the scenario as the authors table sees it, plotted
C6_Witness ==
    /\ Plotted
    /\ Unwrap(req) = Request("FirstYear", "Authors", "Month")
    /\ ScenarioStored
    /\ \A name \in {Str.A, Str.B, Str.C} :
           Cardinality({c \in raw_commits : c.author_name = name
                                            /\ BinOf(c, "Month") = Jan2020}) = 1
    /\ \E a \in authors : /\ a.author_name = Str.A
                          /\ a.first_year = 2019
                          /\ a.active_time = 400 * SecondsPerDay
    /\ \E a \in authors : /\ a.author_name = Str.B
                          /\ a.first_year = 2020
                          /\ a.active_time = 10 * SecondsPerDay
    /\ \E a \in authors : /\ a.author_name = Str.C
                          /\ a.first_year = 2020
                          /\ a.active_time = 400 * SecondsPerDay
    /\ Has(hist.bins, Jan2020)


-----------------------------------------------------------------------------
(* Claims about the Brief cell, the tenure cohorts and the categories *)

\* The unit metric of a set of events: distinct authors, events, or size
UnitMetric(unit, events) ==
    IF unit = "Authors" THEN Cardinality({c.author_name : c \in events})
    ELSE IF unit = "Commits" THEN Cardinality(events)
    ELSE IntSum([c \in events |-> c.n_insertions + c.n_deletions])

\* The sentinel cells the claim describes: for every bin with events of
\* authors at or below the threshold, the unit metric of those events
BriefCellsByUnit(r) ==
    LET brief == BriefAuthors(raw_commits)
        ev == {c \in raw_commits : c.author_name \in brief}
    IN  {<<b, NO_COHORT, UnitMetric(r.unit, {c \in ev : BinOf(c, r.interval) = b})>> :
            b \in {BinOf(c, r.interval) : c \in ev}}

\* C16: in every strategy the Brief cell of a bin holds the configured unit
\* metric (distinct authors, number of events, or summed size) of exactly
\* the events in that bin of the authors at or below the threshold.
C16_BriefCellIsUnitMetric ==
    Plotted => SentinelCells(hist) = BriefCellsByUnit(Unwrap(req))

\* The same for the strategies that read raw_commits directly
C16_BriefCellIsUnitMetricOutsideAggregates ==
    (Plotted /\ Strategy(Unwrap(req)) \in {"firstyear", "column"}) =>
        SentinelCells(hist) = BriefCellsByUnit(Unwrap(req))

\* The suffix histogram of events or size counts the brief authors instead
C16_SuffixBriefCellCountsAuthors ==
    (Plotted /\ Strategy(Unwrap(req)) = "subcommit") =>
        LET r == Unwrap(req)
            brief == BriefAuthors(raw_commits)
            ev == {c \in raw_commits : c.author_name \in brief /\ c.show_domain}
        IN  SentinelCells(hist) =
                {<<b, NO_COHORT, UnitMetric("Authors", {c \in ev : BinOf(c, r.interval) = b})>> :
                    b \in {BinOf(c, r.interval) : c \in ev}}

\* The tenure strategy has run
Tenure == Plotted /\ Strategy(Unwrap(req)) = "firstyear"

\* The stored events of an author, the year of the earliest of them, and
\* the smallest of their years
EventsOf(name) == {c \in raw_commits : c.author_name = name}
YearOfEarliestEvent(name) ==
    (CHOOSE c \in EventsOf(name) : \A d \in EventsOf(name) : c.author_time <= d.author_time)
        .author_year
SmallestYear(name) == MinOf({c.author_year : c \in EventsOf(name)})

\* The non-sentinel cells when every event of an above-threshold author
\* counts, in its own bin, for the one cohort cohort_of gives its author
TenureCells(r, cohort_of) ==
    LET ev == AboveThreshold(raw_commits)
        keys_of == {<<BinOf(c, r.interval), cohort_of[c.author_name]>> : c \in ev}
    IN  {<<k[1], k[2],
           UnitMetric(r.unit, {c \in ev : /\ BinOf(c, r.interval) = k[1]
                                          /\ cohort_of[c.author_name] = k[2]})>> :
            k \in keys_of}

TenureNames(cohort_of) ==
    \A name \in DOMAIN cohort_of :
        \A x \in NonSentinelCells(hist) :
            x[2] = cohort_of[name] => get_cohort_name(hist, x[2]) = to_string(cohort_of[name])

CategoricalByEvents == Plotted /\ Strategy(Unwrap(req)) \in {"column", "subcommit"}

\* The cohort of a category: 16 - rowid for a row of the top table, else "Other"
CohortOfCategory(g) ==
    IF g \in Range(top)
    THEN OTHER_COHORT - (CHOOSE i \in 1..Len(top) : top[i] = g)
    ELSE OTHER_COHORT

\* The size an event brings to one of its categories: the event's insertions
\* and deletions, or (weighted) the changes recorded for the suffix
SizeOf(c, g, weighted) ==
    IF weighted
    THEN IntSum([x \in {y \in suffixes : y.commit_oid = c.oid /\ y.suffix = g} |-> x.n_changes])
    ELSE c.n_insertions + c.n_deletions

\* The cells the claim describes: per bin and cohort, the unit metric summed
\* over the (event, category) memberships of above-threshold authors
CategoryCells(r, weighted) ==
    LET above == AboveThreshold(raw_commits)
        member == UNION {{<<c, g>> : g \in EventCategories(r, c)} : c \in above}
        key(m) == <<BinOf(m[1], r.interval), CohortOfCategory(m[2])>>
    IN  {<<k[1], k[2],
           IF r.unit = "Commits"
           THEN Cardinality({m \in member : key(m) = k})
           ELSE IntSum([m \in {x \in member : key(x) = k} |-> SizeOf(m[1], m[2], weighted)])>> :
            k \in {key(m) : m \in member}}

\* C18: in the categorical strategy with unit events or size (domain, repo
\* and suffix) the value of a named category in a bin is the number of
\* events, or their summed size, over the bin's events of above-threshold
\* authors that belong to the category, and the value of "Other" is the same
\* sum over the categories outside the top table.
C18_CategoryValueIsUnitSum ==
    CategoricalByEvents =>
        NonSentinelCells(hist) \in {CategoryCells(Unwrap(req), FALSE),
                                    CategoryCells(Unwrap(req), TRUE)}

\* The same for domain and repo only
C18_CategoryValueIsUnitSumForDomainAndRepo ==
    (Plotted /\ Strategy(Unwrap(req)) = "column") =>
        NonSentinelCells(hist) = CategoryCells(Unwrap(req), FALSE)

\* The (event, category) memberships of a set of events
Memberships(r, ev) == UNION {{<<c, g>> : g \in EventCategories(r, c)} : c \in ev}

\* The sum over all bins and authors of the share category g has among the
\* memberships of the author in the bin
FractionalTotal(r, g, ev) ==
    LET member == Memberships(r, ev)
        pairs == {<<BinOf(m[1], r.interval), m[1].author_name>> : m \in member}
        of(k) == {m \in member : <<BinOf(m[1], r.interval), m[1].author_name>> = k}
    IN  RatSum([k \in pairs |->
                   Rat(Cardinality({m \in of(k) : m[2] = g}), Cardinality(of(k)))])

\* The sum over the commits of the share category g has among the commit's
\* categories
ShareTotal(r, g, ev) ==
    RatSum([c \in {x \in ev : g \in EventCategories(r, x)} |->
               Rat(1, Cardinality(EventCategories(r, c)))])

\* The events, or their size, that belong to category g
EventTotal(r, g, ev) ==
    LET of == {c \in ev : g \in EventCategories(r, c)}
    IN  IF r.unit = "Commits" THEN Rat(Cardinality(of), 1)
        ELSE Rat(IntSum([c \in of |-> c.n_insertions + c.n_deletions]), 1)

\* C19 as stated: every category with a cohort of its own has a total, over
\* all bins and above-threshold authors only (events or size for those
\* units, fractional author totals for unit authors), greater than or equal
\* to that of every category folded into "Other".
C19_NamedOutrankFolded ==
    Categorical =>
        LET r == Unwrap(req)
            ev == AboveThreshold(raw_commits)
            total == [g \in CountedCategories(r) |->
                         IF r.unit = "Authors" THEN FractionalTotal(r, g, ev)
                         ELSE EventTotal(r, g, ev)]
        IN  \A g \in Range(top) : \A h \in CountedCategories(r) \ Range(top) :
                RatGe(total[g], total[h])

\* C19 amended: the totals are taken over the shown events of
\* above-threshold authors (for suffix with unit events or size: the
\* commits' shares); every category with a cohort of its own has a shown
\* event and a total greater than or equal to that of every other category
\* with a shown event. A category without a shown event is folded into
\* "Other" whatever its events or size.
C19_NamedOutrankFoldedAmongShown ==
    Categorical =>
        LET r == Unwrap(req)
            ev == {c \in AboveThreshold(raw_commits) : c.show_domain}
            total == [g \in CandidateCategories(r) |->
                         IF r.unit = "Authors" THEN FractionalTotal(r, g, ev)
                         ELSE IF r.cohort = "Suffix" THEN ShareTotal(r, g, ev)
                         ELSE EventTotal(r, g, ev)]
        IN  /\ Range(top) \subseteq CandidateCategories(r)
            /\ \A g \in Range(top) : \A h \in CandidateCategories(r) \ Range(top) :
                   RatGe(total[g], total[h])

\* a full top table, a shown category and a hidden one folded into "Other"
C19_Witness ==
    /\ Categorical
    /\ Len(top) = N_ITEMS
    /\ CandidateCategories(Unwrap(req)) \ Range(top) /= {}
    /\ CountedCategories(Unwrap(req)) \ CandidateCategories(Unwrap(req)) /= {}

\* C20: during one aggregation run of any strategy set is called at most
\* once on each (bin, cohort) key, so the histogram holds one cell per call
\* and no written value is overwritten.
C20_EachKeySetOnce ==
    Plotted =>
        /\ \A k \in DOMAIN calls : calls[k] = 1
        /\ DOMAIN calls = {<<x[1], x[2]>> : x \in Cells(hist)}

\* a named cohort and "Other" written for the same bin in one run
C20_Witness ==
    /\ Plotted
    /\ \E b \in DOMAIN hist.bins :
           {<<b, OTHER_COHORT>>, <<b, OTHER_COHORT - 1>>} \subseteq DOMAIN calls

-----------------------------------------------------------------------------
(* Claims about the cohort ids, the empty store and the event table *)

\* C21: in every strategy every cohort id written other than the sentinel
\* is greater than the sentinel -1, the sentinel is not inside
\* min_cohort..max_cohort, and "Other" has an id of its own: the sentinel is
\* never named "Other".
C21_SentinelBelowEveryCohort ==
    Plotted =>
        /\ \A x \in NonSentinelCells(hist) : x[2] > NO_COHORT
        /\ NonSentinelCells(hist) /= {} =>
               /\ NO_COHORT < hist.first_cohort
               /\ hist.first_cohort <= hist.last_cohort
        /\ get_cohort_name(hist, NO_COHORT) \in {<< >>, BriefName}
        /\ \A c \in DOMAIN hist.cohort_names :
               hist.cohort_names[c] = OtherName => c = OTHER_COHORT /\ c /= NO_COHORT

\* Brief, named cohorts and "Other" in one histogram
C21_Witness ==
    /\ Plotted
    /\ SentinelCells(hist) /= {}
    /\ OTHER_COHORT \in CohortIds(hist)
    /\ Cardinality(CohortIds(hist)) > 2
    /\ get_cohort_name(hist, OTHER_COHORT) = OtherName

\* The first-contribution years of the above-threshold authors
FirstYears == {SmallestYear(c.author_name) : c \in AboveThreshold(raw_commits)}

\* C22 as stated: in the tenure strategy every year from the smallest to the
\* largest non-sentinel cohort id is a written, named cohort.
C22_TenureCohortsContiguous ==
    Tenure =>
        \A y \in hist.first_cohort..hist.last_cohort :
            y \in CohortIds(hist) /\ get_cohort_name(hist, y) /= << >>

\* C22 amended: the non-sentinel cohorts written are exactly the first
\* years of the above-threshold authors, each named by its year; a year
\* between two of them in which no such author started is neither written
\* nor named, and is exported as a column of zeros.
C22_TenureCohortsAreFirstYears ==
    Tenure =>
        /\ CohortIds(hist) = FirstYears
        /\ DOMAIN hist.cohort_names \ {NO_COHORT} = FirstYears
        /\ \A y \in FirstYears : get_cohort_name(hist, y) = to_string(y)
        /\ FirstYears /= {} =>
               /\ hist.first_cohort = MinOf(FirstYears)
               /\ hist.last_cohort = MaxOf(FirstYears)
        /\ \A i \in 1..Len(to_vecs(hist)) :
               \A y \in (hist.first_cohort..hist.last_cohort) \ FirstYears :
                   <<y, 0>> \in Range(to_vecs(hist)[i][2])

\* authors who started in 2018 and in 2020, none in 2019
C22_Witness ==
    /\ Tenure
    /\ CohortIds(hist) = {2018, 2020}
    /\ hist.first_cohort = 2018 /\ hist.last_cohort = 2020
    /\ get_cohort_name(hist, 2019) = << >>

\* A plot command has run on a store without events
PlotOfEmptyStore == IsSome(req) /\ raw_commits = {} /\ n_inserts = 0

\* C23 as stated: on an empty event set get_hist succeeds for every strategy
\* and the histogram it returns has no bounds.
C23_EmptyStoreGivesHistWithoutBounds ==
    PlotOfEmptyStore => result = "ok" /\ get_bounds(hist) = None

\* What holds of the empty store: every request but the suffix cohorts by
\* events or size per month succeeds, with no bounds and no cell, and with
\* the sentinel named "Brief" where the strategy names it; those two fail.
C23_EmptyStoreFailsOnlyForSuffixByMonth ==
    PlotOfEmptyStore =>
        IF QueryFails(req[1]) THEN result = "err"
        ELSE /\ result = "ok"
             /\ get_bounds(hist) = None
             /\ Cells(hist) = {}
             /\ Strategy(req[1]) /= "column" =>
                    get_cohort_name(hist, NO_COHORT) = BriefName

\* One step of a plot command: postprocess and get_hist
PlotStep == result = "none" /\ result' /= "none"

\* The columns of an event row that ingest stored, the engine's visibility
\* flag left out
EventColumns(r) ==
    [oid |-> r.oid, id |-> r.id, repo_name |-> r.repo_name, author_name |-> r.author_name,
     author_email |-> r.author_email, author_domain |-> r.author_domain,
     author_time |-> r.author_time, author_year |-> r.author_year,
     author_month |-> r.author_month, n_insertions |-> r.n_insertions,
     n_deletions |-> r.n_deletions]

\* C24 as stated: a plot command deletes no event row and modifies no
\* attribute of an event, its origin domain included.
C24_PlotLeavesEventsUnchanged ==
    [][PlotStep =>
          {EventColumns(r) : r \in raw_commits'} = {EventColumns(r) : r \in raw_commits}]_vars

\* the rows postprocess keeps: author_year in 1980..now
LikelyYear(r) == \E now_year \in NowYears : r.author_year \in FirstValidYear..now_year

\* C24 amended: a plot command deletes exactly the event rows whose
\* author_year is below 1980 or above the current year; in the rows it keeps
\* it changes no column but show_domain and, to the name of a domain whose
\* aggregate_emails match the row, author_domain; it leaves the suffix rows,
\* those of the deleted events included, as they are.
C24_PlotKeepsLikelyEvents ==
    [][PlotStep =>
          /\ {r.oid : r \in raw_commits'} = {r.oid : r \in {x \in raw_commits : LikelyYear(x)}}
          /\ \A r \in raw_commits' : \E x \in raw_commits :
                 /\ [EventColumns(r) EXCEPT !.author_domain = x.author_domain] = EventColumns(x)
                 /\ r.author_domain /= x.author_domain =>
                        \E meta \in StoreMetas \cup MetaChoices :
                            /\ IsSome(meta.domains)
                            /\ \E i \in 1..Len(Unwrap(meta.domains)) :
                                   LET domain == Unwrap(meta.domains)[i]
                                   IN  /\ IsSome(domain.aggregate_emails)
                                       /\ sql_emails_selector(domain, x)
                                       /\ r.author_domain = domain.name
          /\ suffixes' = suffixes]_vars

\* a plot has deleted n1, kept its suffix row, and moved alice's events to
\* the domain "corp"
C24_Witness ==
    /\ Plotted
    /\ \E s \in suffixes : s.suffix = Odd.zz /\ \A r \in raw_commits : r.oid /= s.commit_oid
    /\ \E r \in raw_commits :
           r.author_domain = Odd.corp /\ email_to_domain(r.author_email) /= Odd.corp

\* The ids of the commits of Odd that were stored without an author time
UntimedIds == {c.id : c \in {Odd.n1, Odd.n2}}

\* the names of the cohorts of a histogram
NamesIn(h) == {h.cohort_names[c] : c \in DOMAIN h.cohort_names}

\* What C25 says of the store and of every histogram but the suffix ones: the
\* run does not fail because of the event, postprocess has deleted it, no
\* author summary counts it, no bin is of its year 1970, and the events with
\* an author time are all counted
UntimedExcluded ==
    /\ IsSome(req) => result = "ok" \/ QueryFails(req[1])
    /\ Plotted =>
           /\ \A r \in raw_commits : r.id \notin UntimedIds
           /\ \A a \in authors :
                  /\ a.author_name /= Odd.zed
                  /\ a.first_year >= FirstValidYear
                  /\ a.n_commits = Cardinality({r \in raw_commits : r.author_name = a.author_name})
           /\ \A x \in Cells(hist) : x[1].year >= FirstValidYear
           /\ req[1].cohort = "FirstYear" /\ req[1].unit = "Commits" =>
                  SumValues([x \in Cells(hist) |-> x[3]]) = Cardinality(raw_commits)

\* C25 as stated: an event stored without an author time does not fail the
\* run and contributes to no author summary and to no cell of any histogram;
\* "zz" is the suffix of such an event only, so no cohort is named by it.
C25_UntimedEventContributesNothing ==
    /\ UntimedExcluded
    /\ Plotted => Odd.zz \notin NamesIn(hist)

\* What holds: the exclusion, with the suffix histograms left out
C25_UntimedEventExcludedOutsideSuffix ==
    /\ UntimedExcluded
    /\ Plotted /\ req[1].cohort /= "Suffix" => Odd.zz \notin NamesIn(hist)

\* C26 as stated: for every cohort type, unit and interval, get_hist on a
\* postprocessed store returns a histogram, not an error.
C26_EveryRequestReturnsHist ==
    IsSome(req) => result = "ok"

\* What holds: the requests that fail are the suffix cohorts by events or
\* size per month, on every store; all others return a histogram.
C26_OnlySuffixByMonthFails ==
    IsSome(req) =>
        (result = "err" <=>
            /\ req[1].cohort = "Suffix"
            /\ req[1].unit \in {"Commits", "Changes"}
            /\ req[1].interval = "Month")


-----------------------------------------------------------------------------
(* Claims about the instants of a bin *)

\* The (year, month0) of the day an instant falls on
MonthOfInstant(t) == CivilFromDays(t \div SecondsPerDay)

\* C27: begin_dt(b) is the first instant of the bin's first month (January
\* for a monthless bin), begin_dt(b) < end_dt(b), and end_dt(b) is
\* begin_dt(next(b)): the half-open intervals of consecutive bins tile time.
C27_ConsecutiveBinsTileTime ==
    /\ begin_dt(ym) % SecondsPerDay = 0
    /\ MonthOfInstant(begin_dt(ym)) = [year |-> ym.year, month0 |-> unwrap_or(ym.month, 0)]
    /\ MonthOfInstant(begin_dt(ym) - 1) /= MonthOfInstant(begin_dt(ym))
    /\ begin_dt(ym) < end_dt(ym)
    /\ MonthOfInstant(end_dt(ym) - 1) = [year |-> ym.year, month0 |-> unwrap_or(ym.month, 11)]
    /\ end_dt(ym) = begin_dt(next(ym))
    /\ ym_op = "next" => end_dt(ym_from) = begin_dt(ym)
    /\ ym_op = "prev" => end_dt(ym) = begin_dt(ym_from)

\* next() has stepped from a December to the January that follows it
C27_Witness ==
    /\ ym_op = "next"
    /\ ym_from.month = Some(11)
    /\ ym = YearMonth(ym_from.year + 1, Some(0))
    /\ end_dt(ym_from) = begin_dt(ym)
    /\ end_dt(ym_from) - begin_dt(ym_from) = 31 * SecondsPerDay


-----------------------------------------------------------------------------
(* Claims about ingest *)

\* The commit of Odd with an id; a commit read again is read unchanged
CommitOfId(id) == CHOOSE c \in {Odd.u1, Odd.u2, Odd.n1, Odd.n2} : c.id = id

\* "raw_commits.oid = suffixes.commit_oid": the suffix rows joined to an event
SuffixRowsOf(r) == {s \in suffixes : s.commit_oid = r.oid}

\* One event row per commit id, and the suffix rows joined to it are the
\* suffix weights of one insertion of that commit
OneInsertionPerCommit ==
    /\ \A r1, r2 \in raw_commits : r1.id = r2.id \/ r1.oid = r2.oid => r1 = r2
    /\ \A r \in raw_commits :
           LET weights == CommitOfId(r.id).n_changes_per_suffix
           IN  /\ {s.suffix : s \in SuffixRowsOf(r)} = DOMAIN weights
               /\ \A x \in DOMAIN weights :
                      {s.n_changes : s \in {t \in SuffixRowsOf(r) : t.suffix = x}} = {weights[x]}
               /\ Cardinality(SuffixRowsOf(r)) = Cardinality(DOMAIN weights)

\* C28 as stated: after any sequence of insert_raw_commit calls, commits
\* stored again included, there is one event row per commit id and the
\* suffix rows joined to it by row id are the weights of one insertion.
C28_IngestIdempotentPerEvent == OneInsertionPerCommit

\* What holds: the same, as long as no plot command has run on the events
\* stored (authors is created by the first postprocess)
C28_IngestIdempotentBeforePostprocess == authors = {} => OneInsertionPerCommit


-----------------------------------------------------------------------------
(* Claims about the leading sum of a row *)

\* the number of entries a row has for the cohorts min_cohort..max_cohort
NumCohortEntries(h) ==
    IF h.first_cohort <= h.last_cohort THEN h.last_cohort - h.first_cohort + 1 ELSE 0

\* The leading entry of a row is the sum of its entries for the cohorts
\* min_cohort..max_cohort plus the value stored for the sentinel in the bin
LeadingSumOf(h, row) ==
    /\ row[2][1][1] = NO_COHORT
    /\ Len(row[2]) = 1 + NumCohortEntries(h) +
                     (IF get_cohort_name(h, NO_COHORT) /= << >> THEN 1 ELSE 0)
    /\ \A j \in 2..(NumCohortEntries(h) + 1) : row[2][j][1] = h.first_cohort + j - 2
    /\ row[2][1][2] =
           SumValues([j \in 2..(NumCohortEntries(h) + 1) |-> row[2][j][2]])
           + unwrap_or(get_value(h, row[1], NO_COHORT), 0)

\* C29: for a histogram built by set calls with cohort ids not below the
\* sentinel, the leading Sum of every row equals the sum of the row's
\* entries for min_cohort..max_cohort plus the sentinel's value in that bin
\* (0 if absent), whether or not the trailing sentinel column is emitted.
C29_SumIsCohortsPlusSentinel ==
    (\A k \in WrittenKeys : k[2] >= NO_COHORT) =>
        {LeadingSumOf(hist, row) : row \in Range(to_vecs(hist))} \subseteq {TRUE}

\* a bin holds 3 for the sentinel and 3 for a cohort, its row leads with 6,
\* and the sentinel has no name: no trailing column is emitted
C29_Witness ==
    /\ get_cohort_name(hist, NO_COHORT) = << >>
    /\ \E row \in Range(to_vecs(hist)) :
           /\ row[2][1][2] = 6
           /\ get_value(hist, row[1], NO_COHORT) = Some(3)
           /\ Len(row[2]) = 1 + NumCohortEntries(hist)
           /\ NumCohortEntries(hist) > 0


-----------------------------------------------------------------------------
(* Claims about the commit-log reader *)

\* The whole output of git, and the positions of its header lines
Stream == consumed \o line_splitter
HeaderPositions(s) == {i \in 1..Len(s) : s[i].kind = "header"}

\* the position of the k-th header line of s
KthHeader(s, k) ==
    CHOOSE p \in HeaderPositions(s) : Cardinality({i \in HeaderPositions(s) : i <= p}) = k

\* the lines between the header at p and the next header or the end
LinesAfterHeader(s, p) ==
    {i \in (p + 1)..Len(s) : \A j \in (p + 1)..i : s[j].kind /= "header"}

\* the suffix of a path: what follows its last '.' or '/', the whole path
\* if neither occurs before its last character
PathSuffix(path) ==
    IF \E p \in 1..(Len(path) - 1) : path[p] \in {".", "/"}
    THEN LET p == CHOOSE p \in 1..(Len(path) - 1) :
                      /\ path[p] \in {".", "/"}
                      /\ \A q \in (p + 1)..(Len(path) - 1) : path[q] \notin {".", "/"}
         IN  SubSeq(path, p + 1, Len(path))
    ELSE path

\* The record of the header line at p of s: the header's fields, and the
\* numbers of the lines between it and the next header
RecordOf(s, p) ==
    LET own == LinesAfterHeader(s, p)
        files == {i \in own : IsSome(s[i].file)}
    IN  [id |-> s[p].id,
         author_name |-> s[p].aN,
         n_insertions |-> IntSum([i \in own |-> unwrap_or(s[i].ins, 0)]),
         n_deletions |-> IntSum([i \in own |-> unwrap_or(s[i].del, 0)]),
         n_changes_per_suffix |->
             [x \in {PathSuffix(s[i].file[1].path) : i \in files} |->
                 IntSum([i \in {f \in files : PathSuffix(s[f].file[1].path) = x} |->
                            s[i].file[1].n_changes])]]

\* what RecordOf names, of a commit the reader has yielded
YieldedRecord(c) ==
    [id |-> c.id, author_name |-> c.author_name, n_insertions |-> c.n_insertions,
     n_deletions |-> c.n_deletions, n_changes_per_suffix |-> c.n_changes_per_suffix]

\* C30: the reader yields one record per header line, in the order of the
\* stream, and then ends; a header line is never taken as a statistics line
\* of the commit before it, the statistics lines between two headers are
\* added to the record of the header before them only, and the lines before
\* the first header belong to no record.
C30_OneRecordPerHeaderLine ==
    /\ Len(yielded) = Cardinality(HeaderPositions(consumed))
    /\ \A k \in 1..Len(yielded) :
           YieldedRecord(yielded[k]) = RecordOf(Stream, KthHeader(Stream, k))
    /\ yielded /= << >> /\ line_splitter /= << >> => Head(line_splitter).kind = "header"
    /\ ended => /\ line_splitter = << >>
                /\ Len(yielded) = Cardinality(HeaderPositions(Stream))
    /\ ~ended /\ consumed /= << >> => yielded /= << >>

\* the output began with a summary line, two headers followed, the first
\* with a file line after it: two records, the summary line in neither
C30_Witness ==
    /\ ended
    /\ Len(yielded) = 2
    /\ Stream[1].kind /= "header" /\ Stream[1].ins = Some(4)
    /\ yielded[1].id = "a1" /\ yielded[2].id = "b2"
    /\ yielded[1].author_email = Str.a_x_io
    /\ yielded[1].author_time = Utc(Timestamp(2019, 1, 10))
    /\ yielded[1].n_insertions = 0 /\ yielded[2].n_insertions = 0
    /\ DOMAIN yielded[1].n_changes_per_suffix = {Str.rs}
    /\ yielded[2].n_changes_per_suffix = EmptyMap

====
